---- MODULE Spec2Model ----
(***************************************************************************)
(* gpg-webservice: deterministic session keys, challenge/response and the  *)
(* isolation of the external OpenPGP engine.                               *)
(*                                                                         *)
(* Cryptographic primitives are idealised as collision-free constructors:  *)
(* PBKDF2, HMAC-SHA256, SHA256 and Argon2id are tuples tagged with the     *)
(* primitive's name, so two digests are equal exactly when their inputs    *)
(* are equal.                                                              *)
(***************************************************************************)
EXTENDS Integers, Sequences, FiniteSets, TLC

None == "None"

\* the absent value of an optional record (Python None)
Nil == [nil |-> TRUE]

\* ------------------------------------------------------------------------
\* Bounds of the model
\* ------------------------------------------------------------------------
MaxNow == 7900
MaxCallSeconds == 2

\* ------------------------------------------------------------------------
\* utils/crypto_utils.py : deterministic session key derivation
\* ------------------------------------------------------------------------
SESSION_WINDOW_SECONDS == 3600
SESSION_GRACE_PERIOD_SECONDS == 600
MASTER_SALT_SIZE == 32
SecondsPerDay == 24 * 3600

\* secrets.token_hex(MASTER_SALT_SIZE): two hex characters per byte
generate_master_salt(seed) == [hex |-> seed, len |-> 2 * MASTER_SALT_SIZE]

derive_master_secret(contract_hash, master_salt) ==
    <<"pbkdf2", contract_hash, master_salt.hex>>

get_session_window(timestamp) == timestamp \div SESSION_WINDOW_SECONDS

get_session_window_bounds(window_index) ==
    LET start == window_index * SESSION_WINDOW_SECONDS
        end == start + SESSION_WINDOW_SECONDS
        grace_end == end + SESSION_GRACE_PERIOD_SECONDS
    IN <<start, end, grace_end>>

\* "sk_" + base64url(HMAC-SHA256(master_secret, "session_key_v1:<window>"))
derive_session_key_no_window(master_secret, window_index) ==
    <<"sk_", <<"hmac", master_secret, <<"session_key_v1:", 0>> >> >>

derive_session_key(master_secret, window_index) ==
    <<"sk_", <<"hmac", master_secret, <<"session_key_v1:", window_index>> >> >>

is_within_grace_period(timestamp) ==
    LET current_window == get_session_window(timestamp)
        window_start == current_window * SESSION_WINDOW_SECONDS
        time_into_window == timestamp - window_start
    IN time_into_window < SESSION_GRACE_PERIOD_SECONDS

\* datetime.fromtimestamp(t, tz=utc).isoformat(): day number, hour, minute, second
isoformat(t) ==
    [day |-> t \div SecondsPerDay,
     hh |-> (t % SecondsPerDay) \div 3600,
     mm |-> (t % 3600) \div 60,
     ss |-> t % 60]

\* the instant an ISO timestamp denotes (what the client computes from expires_at)
fromisoformat(iso) == iso.day * SecondsPerDay + iso.hh * 3600 + iso.mm * 60 + iso.ss

\* generate_session_key_for_user with window_index=None; t is what time.time() returns
generate_session_key_for_user(contract_hash, master_salt, t) ==
    LET window_index == get_session_window(t)
        master_secret == derive_master_secret(contract_hash, master_salt)
        session_key == derive_session_key(master_secret, window_index)
        bounds == get_session_window_bounds(window_index)
    IN [api_key |-> session_key,
        window_index |-> window_index,
        window_start |-> isoformat(bounds[1]),
        expires_at |-> isoformat(bounds[3])]

\* hmac.compare_digest
compare_digest(a, b) == a = b

\* the decision at the end of verify_session_key
AcceptDecisionNoGrace(valid_current, valid_previous, within_grace) ==
    valid_current \/ valid_previous

AcceptDecision(valid_current, valid_previous, within_grace) ==
    valid_current \/ (valid_previous /\ within_grace)

\* verify_session_key: t1 is the time.time() read inside get_session_window(),
\* t2 the later time.time() read inside is_within_grace_period()
verify_session_key(contract_hash, master_salt, provided_key, t1, t2) ==
    LET master_secret == derive_master_secret(contract_hash, master_salt)
        current_window == get_session_window(t1)
        previous_window == current_window - 1
        expected_current == derive_session_key(master_secret, current_window)
        expected_previous == derive_session_key(master_secret, previous_window)
        valid_current == compare_digest(provided_key, expected_current)
        valid_previous == compare_digest(provided_key, expected_previous)
        within_grace == is_within_grace_period(t2)
    IN IF ~AcceptDecision(valid_current, valid_previous, within_grace)
       THEN [valid |-> FALSE, window_used |-> None,
             message |-> "Invalid or expired session key"]
       ELSE IF valid_current
       THEN [valid |-> TRUE, window_used |-> current_window,
             message |-> "Valid for current session window"]
       ELSE [valid |-> TRUE, window_used |-> previous_window,
             message |-> "Valid via grace period (previous window)"]

\* ------------------------------------------------------------------------
\* services/auth_service.py : password hashing
\* ------------------------------------------------------------------------
hash_password(password) == <<"argon2id", password>>

verify_password(password, hash_) == hash_ = <<"argon2id", password>>

\* ------------------------------------------------------------------------
\* State
\* ------------------------------------------------------------------------
VARIABLES
    now,        \* the wall clock, in seconds since the epoch (time.time())
    held,       \* the session-key response the client holds (or Nil)
    call,       \* the verify_session_key call in progress (or Nil)
    result,     \* the outcome of the call that just returned (or Nil)
    challenges, \* the rows of table challenges (models/challenge.py)
    next_id,    \* the next primary key / fresh nonce of a challenge
    public_key, \* user id -> key_data of the user's PUBLIC PgpKey row (or Nil)
    workers,    \* request worker -> the verify_challenge call it is executing
    last,       \* the verify_challenge call that returned last (or Nil)
    verified,   \* the nonces for which a call has returned 'Challenge verified'
    dirs,       \* the temporary directories that exist on disk
    next_dir,   \* the number of temporary directories created so far
    gop,        \* the OpenPGP engine operation in progress (or Nil)
    gdone,      \* the engine operation that ended last (or Nil)
    resp,       \* the HTTP response of the request handled last (or Nil)
    failed,     \* route -> the first credential failure answered on it (or Nil)
    max_per_user, \* Config.CHALLENGE_MAX_PER_USER of the running service
    created,    \* the create_challenge call that returned last (or Nil)
    accounts,   \* the rows of table users added by register_user
    pgp_keys,   \* the rows of table pgp_keys
    issued,     \* username -> the session key of its registration response (or Nil)
    uploads,    \* request worker -> the key upload it is handling (or Nil)
    auth_calls, \* the number of authenticate calls started
    batch_files, \* the key-generation batch scripts on disk: <<directory, name>>
    max_requests, \* RateLimiter.max_requests of the limiter of the running service
    requests,   \* RateLimiter.requests: identifier -> the timestamps it keeps
    limiter_calls, \* request worker -> the is_allowed call it is executing (or Nil)
    allowed,    \* identifier -> the instants, not older than the window, of allowed requests
    limited,    \* the rate-limited request answered last (or Nil)
    active_challenges, \* _active_challenges: admin username -> challenge data (or Nil)
    verifies,   \* request worker -> the admin verify_challenge call it executes (or Nil)
    tokens,     \* the admin tokens issued: the challenge, the worker, the token
    token_check, \* the verify_admin_token call that returned last (or Nil)
    signed      \* the response of the /sign or /verify request answered last (or Nil)

sessVars == <<held, call, result>>
chalVars == <<challenges, next_id, public_key, workers, last, verified>>
gpgVars == <<dirs, next_dir, gop, gdone, batch_files>>
authVars == <<resp, failed>>
pruneVars == <<max_per_user, created>>
keyVars == <<accounts, pgp_keys, issued, uploads, auth_calls>>
rateVars == <<max_requests, requests, limiter_calls, allowed, limited>>
adminVars == <<active_challenges, verifies, tokens, token_check>>
signVars == <<signed>>
vars == <<now, held, call, result, challenges, next_id, public_key, workers, last, verified,
          dirs, next_dir, gop, gdone, resp, failed,
          max_per_user, created,
          accounts, pgp_keys, issued, uploads, auth_calls, batch_files,
          max_requests, requests, limiter_calls, allowed, limited,
          active_challenges, verifies, tokens, token_check, signed>>

SessionIdle == held = Nil /\ call = Nil /\ result = Nil

GpgIdle == dirs = {} /\ next_dir = 0 /\ gop = Nil /\ gdone = Nil /\ batch_files = {}

Routes == {"protected", "login"}

\* the names a client may register under, and the request workers
AccountNames == {"alice", "carol"}
RequestWorkers == {1, 2}

KeyIdle ==
    /\ accounts = {}
    /\ pgp_keys = {}
    /\ issued = [u \in AccountNames |-> Nil]
    /\ uploads = [w \in RequestWorkers |-> Nil]
    /\ auth_calls = 0

\* the clients of the rate limiter, as the decorators identify them
Identifiers == {"10.0.0.1", "10.0.0.2"}

RateIdle ==
    /\ max_requests = 1
    /\ requests = [i \in Identifiers |-> <<>>]
    /\ limiter_calls = [w \in RequestWorkers |-> Nil]
    /\ allowed = [i \in Identifiers |-> <<>>]
    /\ limited = Nil

\* the keys of ADMIN_GPG_KEYS of the running service
AdminUsernames == {"administrator", "site_admin"}

AdminIdle ==
    /\ active_challenges = [u \in AdminUsernames |-> Nil]
    /\ verifies = [w \in RequestWorkers |-> Nil]
    /\ tokens = {}
    /\ token_check = Nil

SignIdle == signed = Nil

OthersIdle == RateIdle /\ AdminIdle /\ SignIdle

AuthIdle == resp = Nil /\ failed = [r \in Routes |-> Nil]

\* the principal of the session-key scenarios (models/user.py)
Alice == [id |-> 1, username |-> "alice",
          password_hash |-> hash_password("pw-alice"),
          master_salt |-> generate_master_salt("a1"),
          api_key_hash |-> Nil]

\* ------------------------------------------------------------------------
\* services/challenge_service.py, utils/gpg_utils.py : challenge/response
\* ------------------------------------------------------------------------
MAX_CHALLENGES_PER_USER == 100
MAX_AGE_DAYS == 7

\* config.py reads CHALLENGE_MAX_PER_USER from the environment, default 100
PruneIdle == max_per_user = MAX_CHALLENGES_PER_USER /\ created = Nil

MaxChallenges == 2
MaxChallengeNow == 604801

\* the owners of challenges, the authenticated caller of verify_challenge, and
\* the request workers that serve the caller's requests
Users == {1, 2}
Caller == 1
Workers == {1, 2}

MaxAgeSeconds == MAX_AGE_DAYS * SecondsPerDay

\* secrets.token_urlsafe(32): a fresh value on every call
token_urlsafe(n) == <<"nonce", n>>

\* key material: the key pair generated for a user at registration, and data
\* that is no OpenPGP key at all (upload_keys stores what it is given)
GoodPublicKey(u) == [keyid |-> u, importable |-> TRUE]
MalformedKey == [keyid |-> 0, importable |-> FALSE]

\* signatures a caller may present: none, a detached signature over data made
\* with the private key of user k, or bytes that are no signature
EmptySignature == [signer |-> 0, data |-> <<>>]
SignatureBy(k, data) == [signer |-> k, data |-> data]
GarbageSignature == [signer |-> -1, data |-> <<>>]

\* gpg --import: exit status 0 iff the file holds a key
GpgImportOk(key_data) == key_data.importable

\* gpg --verify sig data, with the keys of the keyring: exit status 0 iff the
\* signature is over data and was made by a key of the keyring
GpgVerifyOk(keyring, signature, data) ==
    /\ signature.signer \in keyring
    /\ signature.data = data

\* utils/gpg_utils.py verify_signature: subprocess.run(import_cmd, check=True)
\* raises CalledProcessError when the import fails
verify_signature(data, signature, key_data) ==
    IF ~GpgImportOk(key_data)
    THEN [raised |-> TRUE, value |-> FALSE]
    ELSE [raised |-> FALSE, value |-> GpgVerifyOk({key_data.keyid}, signature, data)]

\* session.query(Challenge).filter_by(user_id=, challenge_data=)
QueryChallenge(user_id, challenge_data) ==
    {c \in challenges : c.user_id = user_id /\ c.challenge_data = challenge_data}

\* (datetime.now(utc) - created_at).total_seconds() > timedelta(days=MAX_AGE_DAYS).total_seconds()
IsExpired(c, t) == t - c.created_at > MaxAgeSeconds

\* prune_old_challenges: first the rows older than the cutoff, then the oldest
\* rows in excess of MAX_CHALLENGES_PER_USER
RECURSIVE OldestFirst(_)
OldestFirst(S) ==
    IF S = {} THEN <<>>
    ELSE LET c == CHOOSE x \in S : \A y \in S :
                     \/ x.created_at < y.created_at
                     \/ (x.created_at = y.created_at /\ x.id <= y.id)
         IN <<c>> \o OldestFirst(S \ {c})

\* the rows of the owner that the bulk delete of prune_old_challenges removes:
\* created_at < cutoff
AgedRowsNone(rows, user_id, t) == {}

AgedRows(rows, user_id, t) ==
    LET cutoff == t - MaxAgeSeconds
    IN {c \in rows : c.user_id = user_id /\ c.created_at < cutoff}

\* the rows of the owner read by .order_by(created_at).all() after the bulk delete
RowsRead(rows, user_id, t) ==
    OldestFirst({c \in rows \ AgedRows(rows, user_id, t) : c.user_id = user_id})

\* the oldest rows in excess of the cap, deleted one by one
ExcessRows(rows, user_id, t, cap) ==
    LET mine == RowsRead(rows, user_id, t)
    IN IF Len(mine) > cap
       THEN {mine[i] : i \in 1..(Len(mine) - cap)}
       ELSE {}

PruneWithCap(rows, user_id, t, cap) ==
    (rows \ AgedRows(rows, user_id, t)) \ ExcessRows(rows, user_id, t, cap)

prune_old_challenges(rows, user_id, t) ==
    PruneWithCap(rows, user_id, t, MAX_CHALLENGES_PER_USER)

\* session.delete(challenge) followed by the commit of session_scope: deleting
\* a row that is already gone matches no row and is not an error
DeleteChallengeSkipped(rows, c) == rows

DeleteChallenge(rows, c) == rows \ {c}

IdleWorker == [pc |-> "idle"]

ChallengeIdle ==
    /\ challenges = {}
    /\ next_id = 1
    /\ public_key = [u \in Users |-> Nil]
    /\ workers = [w \in Workers |-> IdleWorker]
    /\ last = Nil
    /\ verified = {}

\* the caller registered with a generated key pair, uploaded something that is
\* no key, or has no PUBLIC key row
ChallengeInit ==
    /\ now = 0
    /\ SessionIdle
    /\ GpgIdle
    /\ AuthIdle
    /\ PruneIdle
    /\ KeyIdle
    /\ OthersIdle
    /\ challenges = {}
    /\ next_id = 1
    /\ \E k \in {Nil, MalformedKey, GoodPublicKey(Caller)} :
          public_key = [u \in Users |-> IF u = Caller THEN k ELSE GoodPublicKey(u)]
    /\ workers = [w \in Workers |-> IdleWorker]
    /\ last = Nil
    /\ verified = {}

ChallengeClockSteps == {MaxAgeSeconds, MaxAgeSeconds + 1}

ChallengeTick ==
    \E d \in ChallengeClockSteps :
        /\ now + d <= MaxChallengeNow
        /\ now' = now + d
        /\ UNCHANGED <<sessVars, chalVars, gpgVars, authVars, pruneVars, keyVars,
                       rateVars, adminVars, signVars>>

\* ChallengeService.create_challenge
CreateChallenge(user_id) ==
    /\ next_id <= MaxChallenges
    /\ challenges' = prune_old_challenges(challenges, user_id, now) \cup
           {[id |-> next_id, user_id |-> user_id,
             challenge_data |-> token_urlsafe(next_id), created_at |-> now]}
    /\ next_id' = next_id + 1
    /\ UNCHANGED <<now, sessVars, gpgVars, authVars, public_key, workers, last, verified, pruneVars, keyVars,
                   rateVars, adminVars, signVars>>

\* the record of a call that returns: what it was given, what it answered, and
\* how it relates to the calls that returned before it began
Outcome(challenge_data, signature, found, ok, message, raised, after_same, after_verified) ==
    [challenge_data |-> challenge_data, signature |-> signature, found |-> found,
     ok |-> ok, message |-> message, raised |-> raised,
     after_same |-> after_same, after_verified |-> after_verified,
     already_verified |-> challenge_data \in verified]

\* the call that returned last was given the same arguments and found the challenge
SameAsLast(challenge_data, signature) ==
    /\ last # Nil
    /\ last.challenge_data = challenge_data
    /\ last.signature = signature
    /\ last.found

\* verify_challenge, from the lookup of the challenge to the call of
\* verify_signature: the reads of the transaction, and the early returns
VerifyChallengeBegin(w, user_id, challenge_data, signature) ==
    /\ workers[w].pc = "idle"
    /\ \A v \in Workers : v < w => workers[v].pc # "idle"
    /\ LET found == QueryChallenge(user_id, challenge_data)
           after_same == SameAsLast(challenge_data, signature)
           after_verified == challenge_data \in verified
           early(message) ==
               /\ last' = Outcome(challenge_data, signature, found # {}, FALSE, message,
                                  FALSE, after_same, after_verified)
               /\ UNCHANGED workers
       IN IF found = {} THEN early("Challenge not found or expired")
          ELSE LET challenge == CHOOSE c \in found : TRUE
               IN IF IsExpired(challenge, now) THEN early("Challenge expired")
                  ELSE IF signature = EmptySignature THEN early("Signature required")
                  ELSE IF public_key[user_id] = Nil THEN early("User public key not found")
                  ELSE /\ workers' = [workers EXCEPT ![w] =
                              [pc |-> "verify", challenge_data |-> challenge_data,
                               signature |-> signature, challenge |-> challenge,
                               key_data |-> public_key[user_id],
                               after_same |-> after_same,
                               after_verified |-> after_verified]]
                       /\ UNCHANGED last
    /\ UNCHANGED <<now, sessVars, gpgVars, authVars, challenges, next_id, public_key, verified, pruneVars, keyVars,
                   rateVars, adminVars, signVars>>

\* verify_challenge, from verify_signature to the return: an exception leaves
\* the with-block of session_scope, which rolls back; otherwise the challenge
\* is deleted and the transaction commits
VerifyChallengeFinish(w) ==
    /\ workers[w].pc = "verify"
    /\ LET me == workers[w]
           is_valid == verify_signature(me.challenge_data, me.signature, me.key_data)
           return(ok, message, raised) ==
               last' = Outcome(me.challenge_data, me.signature, TRUE, ok, message, raised,
                               me.after_same, me.after_verified)
       IN IF is_valid.raised
          THEN /\ UNCHANGED <<challenges, verified>>
               /\ return(FALSE, "CalledProcessError", TRUE)
          ELSE /\ challenges' = DeleteChallenge(challenges, me.challenge)
               /\ IF is_valid.value
                  THEN /\ return(TRUE, "Challenge verified", FALSE)
                       /\ verified' = verified \cup {me.challenge_data}
                  ELSE /\ return(FALSE, "Invalid signature", FALSE)
                       /\ UNCHANGED verified
    /\ workers' = [workers EXCEPT ![w] = IdleWorker]
    /\ UNCHANGED <<now, sessVars, gpgVars, authVars, next_id, public_key, pruneVars, keyVars,
                   rateVars, adminVars, signVars>>

\* what a caller can present: a nonce that was issued or one that never was,
\* and no signature, the caller's signature over it, or bytes that are none
Nonces == {token_urlsafe(n) : n \in 1..MaxChallenges + 1}
Signatures(user_id, challenge_data) ==
    {EmptySignature, SignatureBy(user_id, challenge_data), GarbageSignature}

ChallengeNext ==
    \/ ChallengeTick
    \/ \E u \in Users : CreateChallenge(u)
    \/ \E w \in Workers, n \in Nonces :
          \E s \in Signatures(Caller, n) : VerifyChallengeBegin(w, Caller, n, s)
    \/ \E w \in Workers : VerifyChallengeFinish(w)

SpecChallenge == ChallengeInit /\ [][ChallengeNext]_vars

\* the challenge of the call that returned last is no longer stored
LastChallengeGone == QueryChallenge(Caller, last.challenge_data) = {}

\* ------------------------------------------------------------------------
\* C2: when verify is called twice in sequence with the same owner, nonce and
\* signature and the first call found the challenge, the second call returns
\* "Challenge not found or expired", whatever the first call returned.
\* ------------------------------------------------------------------------
C2_SecondCallNotFound ==
    (last # Nil /\ last.after_same) => last.message = "Challenge not found or expired"

\* ------------------------------------------------------------------------
\* C3: once verify has reached the signature check of a matched challenge,
\* the challenge is deleted whatever the engine call does: valid signature,
\* invalid signature, or an error raised by the engine call.
\* ------------------------------------------------------------------------
ReachedSignatureCheck ==
    last # Nil /\ last.message \in {"Challenge verified", "Invalid signature",
                                    "CalledProcessError"}

C3_DeletedAfterSignatureCheck == ReachedSignatureCheck => LastChallengeGone

\* ------------------------------------------------------------------------
\* C4: when verify finds a challenge older than MAX_AGE_DAYS it deletes it and
\* returns "Challenge expired": afterwards the challenge is no longer stored.
\* ------------------------------------------------------------------------
C4_ExpiredDeleted ==
    (last # Nil /\ last.message = "Challenge expired") => LastChallengeGone

\* ------------------------------------------------------------------------
\* C5: of the non-overlapping verify calls for one challenge at most one
\* returns ok: a call that begins after "Challenge verified" was returned for
\* the nonce fails, and a verified challenge is consumed for good.
\* ------------------------------------------------------------------------
C5_AtMostOneVerified ==
    /\ (last # Nil /\ last.after_verified) =>
          (~last.ok /\ last.message = "Challenge not found or expired")
    /\ \A n \in verified : QueryChallenge(Caller, n) = {}

\* a replay of the nonce with the valid signature after a successful verification
C5_Witness ==
    /\ last # Nil
    /\ last.after_verified
    /\ last.signature = SignatureBy(Caller, last.challenge_data)
    /\ last.message = "Challenge not found or expired"

\* ------------------------------------------------------------------------
\* C6: when two verify calls for the same owner and nonce with a valid
\* signature execute concurrently, at most one returns "Challenge verified".
\* ------------------------------------------------------------------------
C6_NoDoubleVerify ==
    last # Nil => ~(last.message = "Challenge verified" /\ last.already_verified)

\* ------------------------------------------------------------------------
\* utils/gpg_file_utils.py, utils/gpg_utils.py, services/gpg_service.py :
\* operations of the external OpenPGP engine in ephemeral keyrings.
\* Three variants of the code exist in the repository:
\*   "rest"    gpg-webservice-rest/utils/gpg_file_utils.py and gpg_utils.py
\*   "legacy"  utils/gpg_file_utils.py
\*   "service" services/gpg_service.py (class GPGService)
\* ------------------------------------------------------------------------
MaxOps == 2

NoPassphrase == ""
Passphrases == {NoPassphrase, "hunter2"}

NoInput == <<>>

\* os.environ of the server process
InheritedEnv == {<<"PATH", "/usr/bin">>, <<"GPG_TTY", "/dev/pts/0">>}

SetEnv(env, updates) ==
    {e \in env : \A u \in updates : u[1] # e[1]} \cup updates

_create_gpg_isolated_env(gnupg_home) ==
    SetEnv(InheritedEnv, {<<"GNUPGHOME", gnupg_home>>, <<"GPG_AGENT_INFO", "">>,
                          <<"GPG_TTY", "">>, <<"DISPLAY", "">>,
                          <<"PINENTRY_USER_DATA", "USE_CURSES=0">>})

\* tempfile.mkdtemp / tempfile.TemporaryDirectory: a directory name not used before
TempDirName(n) == "/tmp/tmp" \o ToString(n)
Path(dir, name) == dir \o "/" \o name

\* a subprocess invocation and what the caller does with a non-zero exit:
\* "raise" an exception, "ignore" it, or give "false" back as the result
\* subprocess.run is never given timeout=, so it waits for the process to end
NoTimeout == "None"

Invocation(name, cmd, input, env, check) ==
    [name |-> name, cmd |-> cmd, input |-> input, env |-> env, check |-> check,
     timeout |-> NoTimeout]

\* class GPGCommandBuilder
Builder(gnupg_home) ==
    [cmd |-> <<"gpg", "--homedir", gnupg_home, "--batch">>, passphrase_input |-> NoInput,
     gnupg_home |-> gnupg_home]
with_yes(b) == [b EXCEPT !.cmd = @ \o <<"--yes">>]
with_passphrase_stdin(b, passphrase) ==
    IF passphrase # NoPassphrase
    THEN [b EXCEPT !.cmd = @ \o <<"--passphrase-fd", "0">>,
                   !.passphrase_input = <<passphrase, "\n">>]
    ELSE b
with_pinentry_loopback(b) ==
    [b EXCEPT !.cmd = @ \o <<"--pinentry-mode", "loopback", "--no-use-agent">>]
with_trust_always(b) == [b EXCEPT !.cmd = @ \o <<"--trust-model", "always">>]
builder_sign(b, input_path, output_path) ==
    [b EXCEPT !.cmd = @ \o <<"--output", output_path, "--detach-sign", input_path>>]
builder_verify(b, sig_path, input_path) ==
    [b EXCEPT !.cmd = @ \o <<"--verify", sig_path, input_path>>]
builder_encrypt(b, input_path, output_path, recipient) ==
    [b EXCEPT !.cmd = @ \o <<"--output", output_path, "--encrypt", "--recipient",
                             recipient, input_path>>]
builder_decrypt(b, input_path, output_path) ==
    [b EXCEPT !.cmd = @ \o <<"--output", output_path, "--decrypt", input_path>>]
builder_list_keys(b) == [b EXCEPT !.cmd = @ \o <<"--list-keys", "--with-colons">>]

\* _kill_gpg_agent
KillAgent ==
    Invocation("kill-agent", <<"gpgconf", "--kill", "gpg-agent">>, NoInput, InheritedEnv,
               "ignore")

\* GPGCommandBuilder.execute: kill the agent, then run the command in the
\* isolated environment; a non-zero exit raises GPGOperationError
execute(b, operation_name) ==
    <<KillAgent,
      Invocation(operation_name, b.cmd, b.passphrase_input,
                 _create_gpg_isolated_env(b.gnupg_home), "raise")>>

\* _import_key_to_gnupg
_import_key_to_gnupg(gnupg_home, key_type, raise_on_error) ==
    <<Invocation("import",
                 <<"gpg", "--homedir", gnupg_home, "--batch", "--import",
                   Path(gnupg_home, key_type \o ".asc")>>,
                 NoInput, InheritedEnv, IF raise_on_error THEN "raise" ELSE "ignore")>>

InPath == "/tmp/upload/file"
OutPath == "/tmp/upload/file.out"
SigPath == "/tmp/upload/file.sig"

\* gpg-webservice-rest/utils/gpg_file_utils.py
rest_sign_file(home, passphrase) ==
    _import_key_to_gnupg(home, "privkey", TRUE) \o
    execute(builder_sign(with_passphrase_stdin(with_pinentry_loopback(with_yes(
                Builder(home))), passphrase), InPath, SigPath), "signing")

rest_decrypt_file(home, passphrase) ==
    _import_key_to_gnupg(home, "privkey", TRUE) \o
    execute(builder_decrypt(with_passphrase_stdin(with_pinentry_loopback(with_yes(
                Builder(home))), passphrase), InPath, OutPath), "decryption")

\* the GPGOperationError of the verify command is caught and gives False
rest_verify_signature_file(home) ==
    LET run == execute(builder_verify(with_trust_always(Builder(home)), SigPath, InPath),
                       "verification")
    IN _import_key_to_gnupg(home, "pubkey", FALSE) \o
       <<run[1], [run[2] EXCEPT !.check = "false"]>>

rest_encrypt_file(home, fpr) ==
    _import_key_to_gnupg(home, "pubkey", TRUE) \o
    execute(builder_list_keys(Builder(home)), "key listing") \o
    execute(builder_encrypt(with_trust_always(with_yes(Builder(home))),
                            InPath, OutPath, fpr), "encryption")

\* gpg-webservice-rest/utils/gpg_utils.py generate_gpg_keypair, keystore_path=None
rest_generate_gpg_keypair(home, passphrase) ==
    <<Invocation("gen-key",
                 <<"gpg", "--homedir", home, "--batch", "--pinentry-mode", "loopback",
                   "--gen-key", Path(home, "batch.txt")>>, NoInput, InheritedEnv, "raise"),
      Invocation("export",
                 <<"gpg", "--homedir", home, "--armor", "--export", "user@example.com">>,
                 NoInput, InheritedEnv, "raise"),
      IF passphrase # NoPassphrase
      THEN Invocation("export-secret",
                 <<"gpg", "--homedir", home, "--batch", "--pinentry-mode", "loopback",
                   "--passphrase-fd", "0", "--armor", "--export-secret-keys",
                   "user@example.com">>,
                 <<passphrase, "\n">>, SetEnv(InheritedEnv, {<<"GNUPGHOME", home>>}), "raise")
      ELSE Invocation("export-secret",
                 <<"gpg", "--homedir", home, "--armor", "--export-secret-keys",
                   "user@example.com">>, NoInput, InheritedEnv, "raise")>>

\* utils/gpg_file_utils.py: the import of the private key is given the
\* passphrase with --passphrase, the signing step over stdin
legacy_import_private(home, passphrase) ==
    IF passphrase # NoPassphrase
    THEN <<Invocation("import",
                 <<"gpg", "--homedir", home, "--batch", "--pinentry-mode", "loopback",
                   "--passphrase", passphrase, "--import", Path(home, "privkey.asc")>>,
                 NoInput, InheritedEnv, "raise")>>
    ELSE <<Invocation("import",
                 <<"gpg", "--homedir", home, "--import", Path(home, "privkey.asc")>>,
                 NoInput, InheritedEnv, "raise")>>

legacy_import_public(home) ==
    <<Invocation("import", <<"gpg", "--homedir", home, "--import", Path(home, "pubkey.asc")>>,
                 NoInput, InheritedEnv, "raise")>>

legacy_run(b, name) ==
    <<KillAgent,
      Invocation(name, b.cmd, b.passphrase_input, _create_gpg_isolated_env(b.gnupg_home),
                 "raise")>>

LegacyBuilder(home) == [Builder(home) EXCEPT !.cmd = <<"gpg", "--homedir", home>>]

legacy_sign_file(home, passphrase) ==
    legacy_import_private(home, passphrase) \o
    legacy_run(builder_sign(with_passphrase_stdin(with_pinentry_loopback(with_yes(
                   Builder(home))), passphrase), InPath, SigPath), "signing")

legacy_decrypt_file(home, passphrase) ==
    legacy_import_private(home, passphrase) \o
    legacy_run(builder_decrypt(with_passphrase_stdin(with_pinentry_loopback(with_yes(
                   Builder(home))), passphrase), InPath, OutPath), "decryption")

legacy_verify_signature_file(home) ==
    legacy_import_public(home) \o
    <<Invocation("verification",
                 builder_verify(with_trust_always(LegacyBuilder(home)), SigPath, InPath).cmd,
                 NoInput, InheritedEnv, "false")>>

legacy_encrypt_file(home, fpr) ==
    legacy_import_public(home) \o
    <<Invocation("key listing", builder_list_keys(LegacyBuilder(home)).cmd,
                 NoInput, InheritedEnv, "raise"),
      Invocation("encryption",
                 builder_encrypt(with_trust_always(with_yes(Builder(home))),
                                 InPath, OutPath, fpr).cmd,
                 NoInput, InheritedEnv, "raise")>>

\* services/gpg_service.py GPGService.sign / decrypt: --passphrase on the
\* command line; a non-zero exit gives (None, stderr) back
service_sign(home, password) ==
    <<Invocation("import", <<"gpg", "--homedir", home, "--import", Path(home, "privkey.asc")>>,
                 NoInput, InheritedEnv, "raise"),
      Invocation("signing",
                 <<"gpg", "--homedir", home, "--batch", "--yes", "--pinentry-mode", "loopback",
                   "--passphrase", password, "--output", Path(home, "data.sig"),
                   "--detach-sign", Path(home, "data.txt")>>,
                 NoInput, InheritedEnv, "false")>>

service_decrypt(home, password) ==
    <<Invocation("import", <<"gpg", "--homedir", home, "--import", Path(home, "privkey.asc")>>,
                 NoInput, InheritedEnv, "raise"),
      Invocation("decryption",
                 <<"gpg", "--homedir", home, "--batch", "--yes", "--pinentry-mode", "loopback",
                   "--passphrase", password, "--output", Path(home, "data.dec"),
                   "--decrypt", Path(home, "data.enc")>>,
                 NoInput, InheritedEnv, "false")>>

\* services/gpg_service.py GPGService.encrypt: the key id of the pub: line is
\* the recipient; the exit status of the listing is not looked at
service_encrypt(home, keyid) ==
    <<Invocation("import", <<"gpg", "--homedir", home, "--import", Path(home, "pubkey.asc")>>,
                 NoInput, InheritedEnv, "raise"),
      Invocation("key listing", <<"gpg", "--homedir", home, "--list-keys", "--with-colons">>,
                 NoInput, InheritedEnv, "ignore"),
      Invocation("encryption",
                 <<"gpg", "--homedir", home, "--yes", "--batch", "-r", keyid, "--output",
                   Path(home, "data.enc"), "--encrypt", Path(home, "data.txt")>>,
                 NoInput, InheritedEnv, "false")>>

\* utils/gpg_utils.py verify_signature (used by ChallengeService and by
\* GPGService.verify): the import is run with check=True
utils_verify_signature(home) ==
    <<Invocation("import", <<"gpg", "--homedir", home, "--import", Path(home, "pubkey.asc")>>,
                 NoInput, InheritedEnv, "raise"),
      Invocation("verification",
                 <<"gpg", "--homedir", home, "--verify", Path(home, "data.sig"),
                   Path(home, "data.txt")>>,
                 NoInput, InheritedEnv, "false")>>

\* field 10 of the fpr: line (field 5 of the pub: line for GPGService) of the
\* key listing: the fingerprint of the imported key, the same in lower case,
\* nothing, or malformed output of the engine
Fingerprint == "0123456789ABCDEF0123456789ABCDEF01234567"
LowerFingerprint == "89abcdef"
NoFingerprint == ""
MalformedFingerprint == "ABCD;id"
Listings == {Fingerprint, LowerFingerprint, NoFingerprint, MalformedFingerprint}

\* the characters of a listed fingerprint
Chars(fpr) ==
    CASE fpr = Fingerprint -> <<"0", "1", "2", "3", "4", "5", "6", "7", "8", "9", "A", "B", "C", "D", "E", "F", "0", "1", "2", "3", "4", "5", "6", "7", "8", "9", "A", "B", "C", "D", "E", "F", "0", "1", "2", "3", "4", "5", "6", "7">>
      [] fpr = LowerFingerprint -> <<"8", "9", "a", "b", "c", "d", "e", "f">>
      [] fpr = MalformedFingerprint -> <<"A", "B", "C", "D", ";", "i", "d">>
      [] fpr = NoFingerprint -> <<>>

HexDigits == {"0", "1", "2", "3", "4", "5", "6", "7", "8", "9",
              "A", "B", "C", "D", "E", "F", "a", "b", "c", "d", "e", "f"}

\* re.match(r'^[A-F0-9]+$', fpr, re.IGNORECASE)
MatchesHex(fpr) ==
    /\ Len(Chars(fpr)) >= 1
    /\ \A i \in 1..Len(Chars(fpr)) : Chars(fpr)[i] \in HexDigits

\* what encrypt does with the listed fingerprint before the encrypt command:
\* the error it ends with, or "" when it goes on
FingerprintError(variant, fpr) ==
    IF fpr = NoFingerprint
    THEN (IF variant = "service" THEN "No public key found"
          ELSE "Could not extract key fingerprint")
    ELSE IF variant = "rest" /\ ~MatchesHex(fpr)
    THEN "Invalid key fingerprint format"
    ELSE ""

Kinds == {"sign", "decrypt", "verify", "encrypt", "keygen"}
Variants == {"rest", "legacy", "service", "utils"}
Implemented ==
    {<<k, "rest">> : k \in Kinds} \cup
    {<<k, "legacy">> : k \in {"sign", "decrypt", "verify", "encrypt"}} \cup
    {<<k, "service">> : k \in {"sign", "decrypt", "encrypt"}} \cup
    {<<"verify", "utils">>}

\* the subprocess invocations of an operation, in order; fpr is the
\* fingerprint read from the key listing
Program(kind, variant, home, passphrase, fpr) ==
    CASE kind = "sign" /\ variant = "rest" -> rest_sign_file(home, passphrase)
      [] kind = "sign" /\ variant = "legacy" -> legacy_sign_file(home, passphrase)
      [] kind = "sign" /\ variant = "service" -> service_sign(home, passphrase)
      [] kind = "decrypt" /\ variant = "rest" -> rest_decrypt_file(home, passphrase)
      [] kind = "decrypt" /\ variant = "legacy" -> legacy_decrypt_file(home, passphrase)
      [] kind = "decrypt" /\ variant = "service" -> service_decrypt(home, passphrase)
      [] kind = "verify" /\ variant = "rest" -> rest_verify_signature_file(home)
      [] kind = "verify" /\ variant = "legacy" -> legacy_verify_signature_file(home)
      [] kind = "verify" /\ variant = "utils" -> utils_verify_signature(home)
      [] kind = "encrypt" /\ variant = "rest" -> rest_encrypt_file(home, fpr)
      [] kind = "encrypt" /\ variant = "legacy" -> legacy_encrypt_file(home, fpr)
      [] kind = "encrypt" /\ variant = "service" -> service_encrypt(home, fpr)
      [] kind = "keygen" /\ variant = "rest" -> rest_generate_gpg_keypair(home, passphrase)

\* leaving `with tempfile.TemporaryDirectory()` (or the finally clause with
\* shutil.rmtree of generate_gpg_keypair): the directory is removed on every
\* exit path
LeaveKeyringOnSuccessOnly(ds, home, outcome) ==
    IF outcome = "raised" THEN ds ELSE ds \ {home}

LeaveKeyring(ds, home, outcome) == ds \ {home}

GpgInit ==
    /\ now = 0
    /\ SessionIdle
    /\ ChallengeIdle
    /\ GpgIdle
    /\ AuthIdle
    /\ PruneIdle
    /\ KeyIdle
    /\ OthersIdle

\* the operation is entered: the ephemeral keyring directory is created
GpgEnter(kind, variant, passphrase) ==
    /\ gop = Nil
    /\ next_dir < MaxOps
    /\ <<kind, variant>> \in Implemented
    /\ kind \in {"verify", "encrypt"} => passphrase = NoPassphrase
    /\ variant = "service" /\ kind # "encrypt" => passphrase # NoPassphrase
    /\ LET home == TempDirName(next_dir + 1)
       IN /\ dirs' = dirs \cup {home}
          /\ gop' = [kind |-> kind, variant |-> variant, home |-> home,
                     passphrase |-> passphrase, pc |-> 1, invoked |-> <<>>,
                     fpr |-> NoFingerprint, blocked |-> FALSE]
    /\ next_dir' = next_dir + 1
    /\ gdone' = Nil
    /\ UNCHANGED <<now, sessVars, chalVars, authVars, pruneVars, keyVars, batch_files,
                   rateVars, adminVars, signVars>>

GpgEnds(outcome, error, invoked, fpr) ==
    /\ gdone' = [kind |-> gop.kind, variant |-> gop.variant, home |-> gop.home,
                 passphrase |-> gop.passphrase, outcome |-> outcome, error |-> error,
                 invoked |-> invoked, fpr |-> fpr]
    /\ dirs' = LeaveKeyring(dirs, gop.home, outcome)
    /\ gop' = Nil

\* an invocation that has run, with how its process ended
Ran(inv, exit) ==
    [name |-> inv.name, cmd |-> inv.cmd, input |-> inv.input, env |-> inv.env,
     check |-> inv.check, timeout |-> inv.timeout, exit |-> exit]

ImportFailed(invoked) ==
    \E i \in 1..Len(invoked) : invoked[i].name = "import" /\ invoked[i].exit = "fail"

\* the ways a process of the engine can end: exit status 0, another exit
\* status, or not at all. gpg --verify does not exit with 0 when the key of
\* the signer was not imported
Exits == {"ok", "fail", "hang"}
EngineCanExit(invoked, inv, exit) ==
    (inv.name = "verification" /\ ImportFailed(invoked)) => exit # "ok"

\* the next subprocess of the operation runs; after the key listing of
\* encrypt the fingerprint is extracted and checked
GpgRun(exit, listed) ==
    /\ gop # Nil
    /\ ~gop.blocked
    /\ LET prog == Program(gop.kind, gop.variant, gop.home, gop.passphrase, gop.fpr)
           inv == prog[gop.pc]
           invoked == Append(gop.invoked, Ran(inv, exit))
           fpr == IF inv.name = "key listing" THEN listed ELSE gop.fpr
           fpr_error == IF inv.name = "key listing"
                        THEN FingerprintError(gop.variant, listed)
                        ELSE ""
       IN /\ EngineCanExit(gop.invoked, inv, exit)
          /\ inv.name # "key listing" => listed = NoFingerprint
          /\ IF exit = "hang"
             THEN \* subprocess.run without timeout= does not return
                  /\ gop' = [gop EXCEPT !.invoked = invoked, !.blocked = TRUE]
                  /\ UNCHANGED <<dirs, gdone>>
             ELSE IF exit = "fail" /\ inv.check = "raise"
             THEN GpgEnds("raised", inv.name, invoked, gop.fpr)
             ELSE IF exit = "fail" /\ inv.check = "false"
             THEN GpgEnds("false", inv.name, invoked, gop.fpr)
             ELSE IF fpr_error # ""
             THEN GpgEnds(IF gop.variant = "service" THEN "false" ELSE "raised",
                          fpr_error, invoked, fpr)
             ELSE IF gop.pc = Len(prog)
             THEN GpgEnds("ok", "", invoked, fpr)
             ELSE /\ gop' = [gop EXCEPT !.invoked = invoked, !.pc = @ + 1, !.fpr = fpr]
                  /\ UNCHANGED <<dirs, gdone>>
    /\ UNCHANGED <<now, sessVars, chalVars, authVars, next_dir, pruneVars, keyVars, batch_files,
                   rateVars, adminVars, signVars>>

GpgNext ==
    \/ \E k \in Kinds, v \in Variants, p \in Passphrases : GpgEnter(k, v, p)
    \/ \E exit \in Exits, listed \in Listings : GpgRun(exit, listed)

SpecGpg == GpgInit /\ [][GpgNext]_vars

\* C8: after any engine operation (sign, verify, encrypt, decrypt, key-pair
\* generation) has ended, by success, by an engine error or by an exception,
\* the ephemeral keyring directory created for that call no longer exists;
\* the only directory that exists is the one of the operation still running.
C8_KeyringRemoved ==
    /\ gdone # Nil => gdone.home \notin dirs
    /\ gop = Nil => dirs = {}
    /\ gop # Nil => dirs = {gop.home}

C8_Witness ==
    /\ gdone # Nil
    /\ gdone.kind = "sign"
    /\ gdone.variant = "rest"
    /\ gdone.passphrase # NoPassphrase
    /\ gdone.outcome = "raised"
    /\ Len(gdone.invoked) = 3
    /\ gdone.home \notin dirs

InSeq(x, seq) == \E i \in 1..Len(seq) : seq[i] = x

PassphraseExposed(inv, passphrase) ==
    \/ InSeq(passphrase, inv.cmd)
    \/ \E e \in inv.env : e[2] = passphrase

AllInvocations ==
    IF gop # Nil THEN gop.invoked ELSE IF gdone # Nil THEN gdone.invoked ELSE <<>>

CurrentOp == IF gop # Nil THEN gop ELSE gdone

\* C9: in every sign and decrypt operation, the import of the private key
\* included, no argument list and no environment of an engine subprocess
\* contains the passphrase.
C9_PassphraseOnlyOnStdin ==
    (CurrentOp # Nil /\ CurrentOp.kind \in {"sign", "decrypt"}
        /\ CurrentOp.passphrase # NoPassphrase) =>
    \A i \in 1..Len(AllInvocations) :
        ~PassphraseExposed(AllInvocations[i], CurrentOp.passphrase)

\* C9 for the code of gpg-webservice-rest/utils/gpg_file_utils.py alone
C9_RestVariant ==
    (CurrentOp # Nil /\ CurrentOp.variant = "rest") => C9_PassphraseOnlyOnStdin

\* C13: in encrypt, a listed fingerprint that holds a character that is no
\* hexadecimal digit makes the operation fail with the fingerprint-validation
\* error, and no encrypt-to-recipient invocation is made.
C13_FingerprintChecked ==
    (/\ CurrentOp # Nil /\ CurrentOp.kind = "encrypt"
     /\ CurrentOp.fpr # NoFingerprint /\ ~MatchesHex(CurrentOp.fpr)) =>
        /\ gop = Nil
        /\ gdone.outcome = "raised"
        /\ gdone.error = "Invalid key fingerprint format"
        /\ \A i \in 1..Len(gdone.invoked) : gdone.invoked[i].name # "encryption"

\* C13 for encrypt_file of gpg-webservice-rest/utils/gpg_file_utils.py alone
C13_RestVariant ==
    (CurrentOp # Nil /\ CurrentOp.variant = "rest") => C13_FingerprintChecked

\* C17: no operation waits without limit for a process of the engine that
\* does not finish: the invocation has a timeout and ends with a timeout error.
C17_NoOperationBlocks ==
    /\ \A i \in 1..Len(AllInvocations) : AllInvocations[i].timeout # NoTimeout
    /\ gop # Nil => ~gop.blocked

\* C19: verify does not raise because the public key fails to import: the
\* verify step still runs and the call returns false.
C19_VerifyToleratesImportFailure ==
    (gdone # Nil /\ gdone.kind = "verify" /\ ImportFailed(gdone.invoked)) =>
        /\ gdone.outcome = "false"
        /\ \E i \in 1..Len(gdone.invoked) : gdone.invoked[i].name = "verification"

\* C19 for verify_signature_file of gpg-webservice-rest/utils/gpg_file_utils.py alone
C19_RestFileVariant ==
    (gdone # Nil /\ gdone.variant = "rest") => C19_VerifyToleratesImportFailure

\* ------------------------------------------------------------------------
\* Session keys: issue at login/registration, verify on a later request
\* ------------------------------------------------------------------------
SessionInit ==
    /\ now = 0
    /\ SessionIdle
    /\ ChallengeIdle
    /\ GpgIdle
    /\ AuthIdle
    /\ PruneIdle
    /\ KeyIdle
    /\ OthersIdle

\* time passes, d seconds at once. A verify call spans at most MaxCallSeconds;
\* the clock stands still while a returned outcome is being observed.
ClockSteps == {1, 10, 60, 600, 3600}

Tick ==
    \E d \in ClockSteps :
        /\ now + d <= MaxNow
        /\ result = Nil
        /\ call # Nil => now + d - call.t1 <= MaxCallSeconds
        /\ now' = now + d
        /\ UNCHANGED <<held, call, result, chalVars, gpgVars, authVars, pruneVars, keyVars,
                       rateVars, adminVars, signVars>>

\* UserService.login_user / register_user: derive the key of the current window
IssueKey ==
    /\ call = Nil /\ result = Nil
    /\ held' = generate_session_key_for_user(Alice.password_hash, Alice.master_salt, now)
    /\ UNCHANGED <<now, call, result, chalVars, gpgVars, authVars, pruneVars, keyVars,
                   rateVars, adminVars, signVars>>

\* verify_session_key up to and including get_session_window(): first clock read
VerifyBegin ==
    /\ call = Nil /\ result = Nil
    /\ held # Nil
    /\ call' = [key |-> held.api_key, issued |-> held, t1 |-> now]
    /\ UNCHANGED <<now, held, result, chalVars, gpgVars, authVars, pruneVars, keyVars,
                   rateVars, adminVars, signVars>>

\* verify_session_key from is_within_grace_period() to the return: second clock read
VerifyFinish ==
    /\ call # Nil
    /\ result' = [key |-> call.key, issued |-> call.issued, t1 |-> call.t1, t2 |-> now,
                  out |-> verify_session_key(Alice.password_hash, Alice.master_salt,
                                             call.key, call.t1, now)]
    /\ call' = Nil
    /\ UNCHANGED <<now, held, chalVars, gpgVars, authVars, pruneVars, keyVars,
                   rateVars, adminVars, signVars>>

\* the caller has consumed the outcome
VerifyReturn ==
    /\ result # Nil
    /\ result' = Nil
    /\ UNCHANGED <<now, held, call, chalVars, gpgVars, authVars, pruneVars, keyVars,
                   rateVars, adminVars, signVars>>

SessionNext == Tick \/ IssueKey \/ VerifyBegin \/ VerifyFinish \/ VerifyReturn

SpecSession == SessionInit /\ [][SessionNext]_vars

\* ------------------------------------------------------------------------
\* C1: a session key derived for window W is accepted as the current-window
\* key at every instant of [W*3600, W*3600+3600), is accepted only through
\* the grace-period branch (window used = W) at every instant of
\* [W*3600+3600, W*3600+4200), and is rejected at every instant from
\* W*3600+4200 on, which is the expires_at reported at issuance.
\* ------------------------------------------------------------------------
C1_WindowCorrectness ==
    result # Nil =>
        LET W == result.issued.window_index
            b == get_session_window_bounds(W)
            expires == fromisoformat(result.issued.expires_at)
            In(lo, hi) == /\ lo <= result.t1 /\ result.t1 < hi
                          /\ lo <= result.t2 /\ result.t2 < hi
        IN /\ expires = W * 3600 + 3600 + 600
           /\ In(W * 3600, W * 3600 + 3600) =>
                 /\ result.out.valid
                 /\ result.out.message = "Valid for current session window"
                 /\ result.out.window_used = W
           /\ In(W * 3600 + 3600, expires) =>
                 /\ result.out.valid
                 /\ result.out.message = "Valid via grace period (previous window)"
                 /\ result.out.window_used = W
           /\ result.t1 >= expires => ~result.out.valid

\* the same statement for calls whose two clock reads return the same instant
C1_SameInstant == (result # Nil /\ result.t1 = result.t2) => C1_WindowCorrectness

\* C25: within one verify_session_key call the window index and the grace
\* decision refer to the same instant: a key accepted as the key of the window
\* before the one the call treats as current is accepted only if the instant
\* at which the call read the window index lies in the grace period.
C25_GraceAtInstantOfWindowRead ==
    (/\ result # Nil /\ result.out.valid
     /\ result.out.window_used = get_session_window(result.t1) - 1)
    => is_within_grace_period(result.t1)

\* C25 seen from the key: no call that begins at or after expires_at accepts
C25_NoAcceptAfterExpiry ==
    (result # Nil /\ result.t1 >= fromisoformat(result.issued.expires_at))
    => ~result.out.valid

\* ------------------------------------------------------------------------
\* services/auth_service.py, routes/gpg_routes.py (require_api_key),
\* routes/user_routes.py (login), services/user_service.py (login_user)
\* ------------------------------------------------------------------------
MaxAuthNow == 4200

NoUsername == ""
NoPassword == ""
NoKey == <<>>
NoUser == 0

\* utils/crypto_utils.py hash_api_key: SHA256 hex digest of the plaintext key
hash_api_key(api_key) == [sha256 |-> api_key]

\* legacy fixed API tokens; the second one happens to begin with sk_
BobToken == <<"", <<"token", "bob">> >>
DaveToken == <<"sk_", <<"token", "dave">> >>
WrongToken == <<"", <<"token", "wrong">> >>
ForgedKey == <<"sk_", <<"forged", "key">> >>

\* rows of table users: alice uses deterministic session keys, bob and dave
\* are accounts from before the migration (no 64-character master salt)
Bob == [id |-> 2, username |-> "bob",
        password_hash |-> hash_password("pw-bob"),
        master_salt |-> [hex |-> "", len |-> 0],
        api_key_hash |-> hash_api_key(BobToken)]
Dave == [id |-> 3, username |-> "dave",
         password_hash |-> hash_password("pw-dave"),
         master_salt |-> [hex |-> "", len |-> 0],
         api_key_hash |-> hash_api_key(DaveToken)]
UsersTable == {Alice, Bob, Dave}

\* Query.first() on a unique column
First(rows) == IF rows = {} THEN Nil ELSE CHOOSE u \in rows : TRUE

\* User.uses_deterministic_keys
uses_deterministic_keys(user) == user.master_salt # Nil /\ user.master_salt.len = 64

get_user_by_api_key(api_key) ==
    First({u \in UsersTable : u.api_key_hash = hash_api_key(api_key)})

get_user_by_username(username) == First({u \in UsersTable : u.username = username})

\* the result of an authentication: the user, the message and the lookups made
AuthResult(user, message, trace) == [user |-> user, message |-> message, trace |-> trace]

verify_session_key_for_user(user, provided_session_key, t) ==
    IF ~uses_deterministic_keys(user)
    THEN [valid |-> FALSE, message |-> "User does not use deterministic session keys",
          trace |-> <<>>]
    ELSE LET v == verify_session_key(user.password_hash, user.master_salt,
                                     provided_session_key, t, t)
         IN [valid |-> v.valid, message |-> v.message, trace |-> <<"verify_session_key">>]

authenticate_by_session_key(username, session_key, t) ==
    LET user == get_user_by_username(username)
    IN IF user = Nil
       THEN AuthResult(Nil, "User not found", <<"get_user_by_username">>)
       ELSE LET v == verify_session_key_for_user(user, session_key, t)
                trace == <<"get_user_by_username">> \o v.trace
            IN IF ~v.valid
               THEN AuthResult(Nil, v.message, trace)
               ELSE AuthResult(user, "Authenticated successfully", trace)

\* api_key.startswith('sk_')
startswith_sk(api_key) == api_key[1] = "sk_"

\* the test of authenticate_request that selects the session-key branch
UsesSessionKeyBranchIfUsername(username, api_key) == username # NoUsername

UsesSessionKeyBranch(username, api_key) == startswith_sk(api_key)

authenticate_request(username, api_key, t) ==
    IF UsesSessionKeyBranch(username, api_key)
    THEN IF username = NoUsername
         THEN AuthResult(Nil, "Username required for session key authentication", <<>>)
         ELSE authenticate_by_session_key(username, api_key, t)
    ELSE LET user == get_user_by_api_key(api_key)
         IN IF user # Nil
            THEN AuthResult(user, "Authenticated via legacy API key",
                            <<"get_user_by_api_key">>)
            ELSE AuthResult(Nil, "Invalid or expired API key", <<"get_user_by_api_key">>)

\* why a request with these credentials cannot succeed
FailureCause(username, api_key) ==
    IF ~startswith_sk(api_key) THEN "key mismatch"
    ELSE IF username = NoUsername THEN "username missing"
    ELSE IF get_user_by_username(username) = Nil THEN "unknown principal"
    ELSE IF ~uses_deterministic_keys(get_user_by_username(username)) THEN "legacy account"
    ELSE "key mismatch"

Failure(route, cause, error) == [route |-> route, cause |-> cause, error |-> error]

\* the causes of failure that the responses must not tell apart
GenericCauses(route) ==
    IF route = "protected"
    THEN {"unknown principal", "legacy account", "key mismatch"}
    ELSE {"no such user", "wrong password"}

RecordFailure(route, cause, error) ==
    IF failed[route] = Nil /\ cause \in GenericCauses(route)
    THEN [failed EXCEPT ![route] = Failure(route, cause, error)]
    ELSE failed

\* audit_logger.log_event: one audit event
AuditEvent(type, status, method, user_id) ==
    [type |-> type, status |-> status, method |-> method, user_id |-> user_id]

\* the authentication method require_api_key logs on success
auth_method(raw_api_key) ==
    IF startswith_sk(raw_api_key) THEN "session_key" ELSE "legacy_api_key"

\* the response of a route, with the cause of the failure it answers and the
\* audit events the handler emitted
Response(route, username, api_key, status, error, user_id, trace, cause, audit) ==
    [route |-> route, username |-> username, api_key |-> api_key, status |-> status,
     error |-> error, user_id |-> user_id, trace |-> trace, cause |-> cause,
     audit |-> audit]

\* a request to a route wrapped in require_api_key
ProtectedRequest(username, raw_api_key) ==
    /\ IF raw_api_key = NoKey
       THEN /\ resp' = Response("protected", username, raw_api_key, 401,
                                "API key required (X-API-KEY header)", NoUser, <<>>,
                                "key missing",
                                <<AuditEvent("INVALID_API_KEY", "failure", "", NoUser)>>)
            /\ UNCHANGED failed
       ELSE LET a == authenticate_request(username, raw_api_key, now)
                cause == FailureCause(username, raw_api_key)
            IN IF a.user = Nil
               THEN /\ resp' = Response("protected", username, raw_api_key, 403,
                                        a.message, NoUser, a.trace, cause,
                                        <<AuditEvent("INVALID_API_KEY", "failure", "",
                                                     NoUser)>>)
                    /\ failed' = RecordFailure("protected", cause, a.message)
               ELSE /\ resp' = Response("protected", username, raw_api_key, 200, "",
                                        a.user.id, a.trace, "",
                                        <<AuditEvent("AUTH_SUCCESS", "success",
                                                     auth_method(raw_api_key),
                                                     a.user.id)>>)
                    /\ UNCHANGED failed
    /\ UNCHANGED <<now, sessVars, chalVars, gpgVars, pruneVars, keyVars,
                   rateVars, adminVars, signVars>>

\* GET /profile: authenticate_request is called by the handler itself
ProfileRequest(username, raw_api_key) ==
    /\ IF raw_api_key = NoKey
       THEN resp' = Response("profile", username, raw_api_key, 401,
                             "API key required (X-API-KEY header)", NoUser, <<>>,
                             "key missing", <<>>)
       ELSE LET a == authenticate_request(username, raw_api_key, now)
            IN IF a.user = Nil
               THEN resp' = Response("profile", username, raw_api_key, 403, a.message,
                                     NoUser, a.trace,
                                     FailureCause(username, raw_api_key), <<>>)
               ELSE resp' = Response("profile", username, raw_api_key, 200, "",
                                     a.user.id, a.trace, "", <<>>)
    /\ UNCHANGED <<now, sessVars, chalVars, gpgVars, pruneVars, failed, keyVars,
                   rateVars, adminVars, signVars>>

\* UserService.login_user: the session key information, or the error
login_user(username, password, t) ==
    LET user == get_user_by_username(username)
    IN IF user = Nil
       THEN [info |-> Nil, error |-> "Invalid credentials", cause |-> "no such user"]
       ELSE IF ~verify_password(password, user.password_hash)
       THEN [info |-> Nil, error |-> "Invalid credentials", cause |-> "wrong password"]
       ELSE IF ~uses_deterministic_keys(user)
       THEN [info |-> Nil,
             error |-> "User account requires migration to deterministic keys",
             cause |-> "legacy account"]
       ELSE [info |-> generate_session_key_for_user(user.password_hash,
                                                    user.master_salt, t),
             error |-> "", cause |-> ""]

\* POST /login
Login(username, password) ==
    /\ call = Nil /\ result = Nil
    /\ IF username = NoUsername \/ password = NoPassword
       THEN /\ resp' = Response("login", username, NoKey, 400,
                                "Username and password are required", NoUser, <<>>,
                                "field missing", <<>>)
            /\ UNCHANGED <<held, failed>>
       ELSE LET r == login_user(username, password, now)
            IN IF r.error # ""
               THEN /\ resp' = Response("login", username, NoKey, 401, r.error, NoUser,
                                        <<>>, r.cause,
                                        <<AuditEvent("LOGIN_FAILURE", "failure", "",
                                                     NoUser)>>)
                    /\ failed' = RecordFailure("login", r.cause, r.error)
                    /\ UNCHANGED held
               ELSE /\ resp' = Response("login", username, r.info.api_key, 200, "",
                                        get_user_by_username(username).id, <<>>, "",
                                        <<AuditEvent("LOGIN_SUCCESS", "success", "",
                                                     get_user_by_username(username).id)>>)
                    /\ held' = r.info
                    /\ UNCHANGED failed
    /\ UNCHANGED <<now, call, result, chalVars, gpgVars, pruneVars, keyVars,
                   rateVars, adminVars, signVars>>

AuthClockSteps == {SESSION_GRACE_PERIOD_SECONDS,
                   SESSION_WINDOW_SECONDS - SESSION_GRACE_PERIOD_SECONDS}

AuthTick ==
    \E d \in AuthClockSteps :
        /\ now + d <= MaxAuthNow
        /\ now' = now + d
        /\ UNCHANGED <<sessVars, chalVars, gpgVars, authVars, pruneVars, keyVars,
                       rateVars, adminVars, signVars>>

AuthInit ==
    /\ now = 0
    /\ SessionIdle
    /\ ChallengeIdle
    /\ GpgIdle
    /\ AuthIdle
    /\ PruneIdle
    /\ KeyIdle
    /\ OthersIdle

Usernames == {NoUsername, "alice", "bob", "dave", "ghost"}
Passwords == {NoPassword, "pw-alice", "pw-bob", "wrong"}
PresentedKeys ==
    {NoKey, BobToken, DaveToken, WrongToken, ForgedKey} \cup
    (IF held # Nil THEN {held.api_key} ELSE {})

AuthNext ==
    \/ AuthTick
    \/ \E u \in Usernames, p \in Passwords : Login(u, p)
    \/ \E u \in Usernames, k \in PresentedKeys : ProtectedRequest(u, k)
    \/ \E u \in Usernames, k \in PresentedKeys : ProfileRequest(u, k)

SpecAuth == AuthInit /\ [][AuthNext]_vars

\* C7: every credential failure carries one and the same generic message: on
\* a protected route the failures for an unknown principal, for a legacy
\* account and for a key mismatch have the same response body, and a failed
\* login for a wrong password has the same body as one for a non-existent user.
C7_LoginFailuresAlike ==
    (/\ resp # Nil /\ resp.route = "login" /\ resp.cause \in GenericCauses("login")
     /\ failed["login"] # Nil)
    => resp.error = failed["login"].error

C7_GenericFailure ==
    /\ (/\ resp # Nil /\ resp.route = "protected" /\ resp.cause \in GenericCauses("protected")
        /\ failed["protected"] # Nil)
       => resp.error = failed["protected"].error
    /\ C7_LoginFailuresAlike

\* the request handled last called authenticate_request
CalledAuthenticate ==
    resp # Nil /\ resp.route \in {"protected", "profile"} /\ resp.api_key # NoKey

\* C14: every call to authenticate, from every protected route and for every
\* outcome, emits exactly one audit event.
C14_OneAuditEventPerCall ==
    CalledAuthenticate => Len(resp.audit) = 1

\* C14 for the routes wrapped in require_api_key alone, with the content of
\* the event: the outcome, and on success the method and the principal
C14_DecoratedRoutes ==
    (CalledAuthenticate /\ resp.route = "protected") =>
        /\ Len(resp.audit) = 1
        /\ resp.audit[1].status = (IF resp.status = 200 THEN "success" ELSE "failure")
        /\ resp.status = 200 =>
              /\ resp.audit[1].user_id = resp.user_id
              /\ resp.audit[1].method = auth_method(resp.api_key)

\* the user a legacy token belongs to
LegacyOwner(api_key) ==
    IF \E u \in UsersTable : u.api_key_hash = hash_api_key(api_key)
    THEN (CHOOSE u \in UsersTable : u.api_key_hash = hash_api_key(api_key)).id
    ELSE NoUser

MaxCap == 2
MaxCreates == 4

\* values of CHALLENGE_MAX_PER_USER (config.py rejects values below 1)
MaxPerUserChoices == 1..MaxCap

PruneInit ==
    /\ now = 0
    /\ SessionIdle
    /\ ChallengeIdle
    /\ GpgIdle
    /\ AuthIdle
    /\ max_per_user \in MaxPerUserChoices
    /\ created = Nil
    /\ KeyIdle
    /\ OthersIdle

\* the rows of table challenges that belong to the owner
RowsOf(rows, user_id) == {c \in rows : c.user_id = user_id}

\* ChallengeService.create_challenge: prune, then insert, in one transaction;
\* created records what the pruning step read and deleted
CreateAndPrune(user_id) ==
    /\ next_id <= MaxCreates
    /\ challenges' = PruneWithCap(challenges, user_id, now, max_per_user) \cup
           {[id |-> next_id, user_id |-> user_id,
             challenge_data |-> token_urlsafe(next_id), created_at |-> now]}
    /\ next_id' = next_id + 1
    /\ created' = [user_id |-> user_id, t |-> now,
                   before |-> Cardinality(RowsOf(challenges, user_id)),
                   aged |-> Cardinality(AgedRows(challenges, user_id, now)),
                   read |-> Len(RowsRead(challenges, user_id, now)),
                   excess |-> Cardinality(ExcessRows(challenges, user_id, now,
                                                     max_per_user))]
    /\ UNCHANGED <<now, sessVars, gpgVars, authVars, public_key, workers, last, verified,
                   max_per_user, keyVars, rateVars, adminVars, signVars>>

PruneNext ==
    \/ ChallengeTick
    \/ \E u \in Users : CreateAndPrune(u)

SpecPrune == PruneInit /\ [][PruneNext]_vars

\* C11: after create_challenge(owner) returns, the owner's stored challenges,
\* the new one included, are at most CHALLENGE_MAX_PER_USER (creates do not
\* overlap in this specification, so no race margin applies).
C11_CountWithinCap ==
    created # Nil =>
        Cardinality(RowsOf(challenges, created.user_id)) <= max_per_user

\* what create_challenge does keep: at most one row above the cap
C11_AtMostOneAboveCap ==
    \A u \in Users : Cardinality(RowsOf(challenges, u)) <= max_per_user + 1

\* C12: after create_challenge(owner) returns, no stored challenge of that
\* owner is older than MAX_AGE_DAYS days at the time of the call.
C12_NoneOlderThanMaxAge ==
    created # Nil =>
        \A c \in RowsOf(challenges, created.user_id) :
            created.t - c.created_at <= MaxAgeSeconds

C12_Witness ==
    /\ created # Nil
    /\ created.aged >= 1
    /\ Cardinality(RowsOf(challenges, created.user_id)) = 1

\* C18: the rows read and the rows deleted by the pruning step of one
\* create_challenge call are bounded by a fixed cap, whatever number of
\* challenges the owner has accumulated; the only cap of the service is
\* CHALLENGE_MAX_PER_USER.
C18_PruneBatchBounded ==
    created # Nil =>
        /\ created.read <= max_per_user
        /\ created.aged + created.excess <= max_per_user

\* what the pruning step does: it reads every row the owner has left after
\* the bulk delete, and deletes every aged and every excess row
C18_ReadsAllRows ==
    created # Nil => created.read = created.before - created.aged

\* ------------------------------------------------------------------------
\* services/user_service.py (register_user, login_user), routes/user_routes.py
\* (upload_keys), services/auth_service.py : accounts and their key rows
\* ------------------------------------------------------------------------
MaxAccountNow == 7300
MaxAuthCalls == 1

\* the password an account is registered with
PasswordOf(username) == "pw-" \o username

\* session.query(User).filter_by(username=username).first()
UserNamed(table, username) == First({u \in table : u.username = username})

\* derive_gpg_passphrase: PBKDF2 of the API key, salted with the user id
derive_gpg_passphrase(api_key, user_id) == <<"pbkdf2", api_key, user_id>>

\* a key that no passphrase protects
Unprotected == <<>>

\* key_data of a row of pgp_keys: where the key came from (n: the worker whose
\* request uploaded it, 0 otherwise), whether it is the output of
\* encrypt_private_key rather than an armored key, and the passphrase that
\* protects it
KeyData(origin, n, encrypted, passphrase) ==
    [origin |-> origin, n |-> n, encrypted |-> encrypted, passphrase |-> passphrase]

\* encrypt_private_key: salt + nonce + AES-GCM ciphertext of the armored key
encrypt_private_key(key_data, password) ==
    KeyData(key_data.origin, key_data.n, TRUE, password)

PgpKey(id, user_id, key_type, key_data) ==
    [id |-> id, user_id |-> user_id, key_type |-> key_type, key_data |-> key_data]

\* PgpKey.query.filter_by(user_id=..., key_type=...).first()
FirstKeyNone(rows, user_id, key_type) == Nil

FirstKey(rows, user_id, key_type) ==
    LET found == {k \in rows : k.user_id = user_id /\ k.key_type = key_type}
    IN IF found = {} THEN Nil
       ELSE CHOOSE k \in found : \A other \in found : k.id <= other.id

\* the next value of an autoincrement primary key
NextId(rows) ==
    IF rows = {} THEN 1
    ELSE (CHOOSE r \in rows : \A other \in rows : other.id <= r.id).id + 1

\* db/session_manager.py session_scope: the rows of a table when the block is
\* left: commit, or rollback when the block raised
session_scope_no_rollback(committed, added, raised) == committed \cup added

session_scope(committed, added, raised) ==
    IF raised THEN committed ELSE committed \cup added

\* the response of a registration: the session key of the current window, or
\* the failure
Registered(info, t, retried) ==
    [status |-> "created", api_key |-> info.api_key, window_index |-> info.window_index,
     t |-> t, retried |-> retried]

RegistrationFailed(t) ==
    [status |-> "failed", api_key |-> NoKey, window_index |-> 0, t |-> t,
     retried |-> FALSE]

\* UserService.register_user: the user row, its two key rows and the session
\* key of the current window, in one transaction; generate_gpg_keypair may raise
Register(username, provided, keygen_raises) ==
    /\ call = Nil /\ result = Nil
    /\ provided => ~keygen_raises
    /\ IF UserNamed(accounts, username) # Nil
       THEN UNCHANGED <<accounts, pgp_keys, issued>>
       ELSE LET id == NextId(accounts)
                password_hash_val == hash_password(PasswordOf(username))
                master_salt == generate_master_salt(username)
                user == [id |-> id, username |-> username,
                         password_hash |-> password_hash_val,
                         master_salt |-> master_salt, api_key_hash |-> Nil]
                session_key_info == generate_session_key_for_user(password_hash_val,
                                                                  master_salt, now)
                origin == IF provided THEN "provided" ELSE "generated"
                key_id == NextId(pgp_keys)
                gpg_passphrase == IF provided THEN Unprotected
                                  ELSE derive_gpg_passphrase(session_key_info.api_key, id)
                keys == IF keygen_raises THEN {}
                        ELSE {PgpKey(key_id, id, "public",
                                     KeyData(origin, 0, FALSE, Unprotected)),
                              PgpKey(key_id + 1, id, "private",
                                     KeyData(origin, 0, FALSE, gpg_passphrase))}
            IN /\ accounts' = session_scope(accounts, {user}, keygen_raises)
               /\ pgp_keys' = session_scope(pgp_keys, keys, keygen_raises)
               /\ issued' = [issued EXCEPT ![username] =
                                IF keygen_raises THEN RegistrationFailed(now)
                                ELSE Registered(session_key_info, now,
                                                issued[username] # Nil)]
    /\ UNCHANGED <<now, sessVars, chalVars, gpgVars, authVars, pruneVars, uploads,
                   auth_calls, rateVars, adminVars, signVars>>

\* the client of the account holds the key of its registration response
HasIssuedKey(username) ==
    IF issued[username] = Nil THEN FALSE ELSE issued[username].status = "created"

\* UserService.login_user on the registered accounts
login_registered(table, username, password, t) ==
    LET user == UserNamed(table, username)
    IN IF user = Nil THEN Nil
       ELSE IF ~verify_password(password, user.password_hash) THEN Nil
       ELSE IF ~uses_deterministic_keys(user) THEN Nil
       ELSE generate_session_key_for_user(user.password_hash, user.master_salt, t)

AccountPasswords(username) == {PasswordOf(username), "wrong"}

\* POST /login of a registered account: the client holds the key of the response
AccountLogin(username, password) ==
    /\ call = Nil /\ result = Nil
    /\ LET info == login_registered(accounts, username, password, now)
       IN IF info = Nil
          THEN held' = Nil
          ELSE held' = [username |-> username, api_key |-> info.api_key,
                        window_index |-> info.window_index, t |-> now]
    /\ UNCHANGED <<now, call, result, chalVars, gpgVars, authVars, pruneVars, keyVars,
                   rateVars, adminVars, signVars>>

\* authenticate_request with the key of the registration response: up to and
\* including the first clock read of verify_session_key
AuthenticateBegin(username) ==
    /\ call = Nil /\ result = Nil
    /\ auth_calls < MaxAuthCalls
    /\ HasIssuedKey(username)
    /\ call' = [username |-> username, key |-> issued[username].api_key,
                issued_at |-> issued[username].t, t1 |-> now]
    /\ auth_calls' = auth_calls + 1
    /\ UNCHANGED <<now, held, result, chalVars, gpgVars, authVars, pruneVars,
                   accounts, pgp_keys, issued, uploads, rateVars, adminVars, signVars>>

\* from the second clock read of verify_session_key to the return
AuthenticateFinish ==
    /\ call # Nil
    /\ LET user == UserNamed(accounts, call.username)
       IN result' = [username |-> call.username, key |-> call.key,
                     issued_at |-> call.issued_at, t1 |-> call.t1, t2 |-> now,
                     out |-> verify_session_key(user.password_hash, user.master_salt,
                                                call.key, call.t1, now)]
    /\ call' = Nil
    /\ UNCHANGED <<now, held, chalVars, gpgVars, authVars, pruneVars, keyVars,
                   rateVars, adminVars, signVars>>

\* time passes between requests, and during an authenticate call
AccountClockSteps == {SESSION_WINDOW_SECONDS - MaxCallSeconds, SESSION_WINDOW_SECONDS + 1}

AccountTick ==
    /\ call = Nil /\ result = Nil
    /\ \E d \in AccountClockSteps :
          /\ now + d <= MaxAccountNow
          /\ now' = now + d
    /\ UNCHANGED <<sessVars, chalVars, gpgVars, authVars, pruneVars, keyVars,
                   rateVars, adminVars, signVars>>

CallTick ==
    /\ call # Nil
    /\ now + 1 - call.t1 <= MaxCallSeconds
    /\ now + 1 <= MaxAccountNow
    /\ now' = now + 1
    /\ UNCHANGED <<sessVars, chalVars, gpgVars, authVars, pruneVars, keyVars,
                   rateVars, adminVars, signVars>>

AccountInit ==
    /\ now = 0
    /\ SessionIdle
    /\ ChallengeIdle
    /\ GpgIdle
    /\ AuthIdle
    /\ PruneIdle
    /\ KeyIdle
    /\ OthersIdle

AccountNext ==
    \/ AccountTick
    \/ CallTick
    \/ \E u \in AccountNames, provided \in BOOLEAN : Register(u, provided, FALSE)
    \/ \E u \in AccountNames : \E p \in AccountPasswords(u) : AccountLogin(u, p)
    \/ \E u \in AccountNames : AuthenticateBegin(u)
    \/ AuthenticateFinish

SpecAccount == AccountInit /\ [][AccountNext]_vars

C15_WitnessLaterWindow ==
    /\ held # Nil
    /\ held.api_key # issued[held.username].api_key

\* C16: a session key received at registration is rejected, with the
\* key-mismatch reason, by an authenticate call made 3601 seconds later.
C16_RejectedAfter3601 ==
    (result # Nil /\ result.t1 = result.issued_at + 3601) =>
        /\ ~result.out.valid
        /\ result.out.message = "Invalid or expired session key"

\* C16 for the calls that begin past the window of the key and past its
\* grace period
C16_RejectedPastGrace ==
    (/\ result # Nil /\ result.t1 = result.issued_at + 3601
     /\ result.t1 >= get_session_window_bounds(get_session_window(result.issued_at))[3])
    => ~result.out.valid

\* authenticate_request on the registered accounts, both clock reads at t
authenticate_registered(table, username, api_key, t) ==
    IF ~startswith_sk(api_key)
    THEN First({u \in table : u.api_key_hash = hash_api_key(api_key)})
    ELSE IF username = NoUsername THEN Nil
    ELSE LET user == UserNamed(table, username)
         IN IF user = Nil \/ ~uses_deterministic_keys(user) THEN Nil
            ELSE IF verify_session_key(user.password_hash, user.master_salt,
                                       api_key, t, t).valid
            THEN user
            ELSE Nil

KeyTypes == {"public", "private"}

\* upload_keys, one uploaded file: update the row the query finds, or add one
\* (target 0)
KeyWrite(rows, user_id, key_type, w, raw_api_key) ==
    LET existing == FirstKey(rows, user_id, key_type)
        uploaded == KeyData("uploaded", w, FALSE, Unprotected)
    IN [key_type |-> key_type,
        target |-> IF existing = Nil THEN 0 ELSE existing.id,
        key_data |-> IF key_type = "private"
                     THEN encrypt_private_key(uploaded,
                                              derive_gpg_passphrase(raw_api_key, user_id))
                     ELSE uploaded]

\* upload_keys up to db.session.commit(): the status of the response when the
\* request is refused, 0 and the pending writes otherwise
upload_keys(table, rows, username, raw_api_key, password, files, t, w) ==
    IF raw_api_key = NoKey THEN [status |-> 401, user_id |-> NoUser, writes |-> {}]
    ELSE LET user == authenticate_registered(table, username, raw_api_key, t)
         IN IF user = Nil THEN [status |-> 403, user_id |-> NoUser, writes |-> {}]
            ELSE IF password = NoPassword
            THEN [status |-> 400, user_id |-> NoUser, writes |-> {}]
            ELSE IF login_registered(table, user.username, password, t) = Nil
            THEN [status |-> 401, user_id |-> NoUser, writes |-> {}]
            ELSE IF files = {}
            THEN [status |-> 400, user_id |-> NoUser, writes |-> {}]
            ELSE [status |-> 0, user_id |-> user.id,
                  writes |-> {KeyWrite(rows, user.id, key_type, w, raw_api_key) :
                                   key_type \in files}]

\* a worker handles POST /keys/upload up to the commit
UploadBegin(w, username, raw_api_key, password, files) ==
    /\ (IF uploads[w] = Nil THEN TRUE ELSE uploads[w].status # 0)
    /\ uploads' = [uploads EXCEPT ![w] =
                      upload_keys(accounts, pgp_keys, username, raw_api_key, password,
                                  files, now, w)]
    /\ UNCHANGED <<now, sessVars, chalVars, gpgVars, authVars, pruneVars, accounts,
                   pgp_keys, issued, auth_calls, rateVars, adminVars, signVars>>

\* the rows of pgp_keys after the writes of a request are committed
CommitWrites(rows, user_id, writes) ==
    LET updates == {x \in writes : x.target # 0}
        inserts == {x \in writes : x.target = 0}
        Updated(k) == IF \E x \in updates : x.target = k.id
                      THEN [k EXCEPT !.key_data =
                               (CHOOSE x \in updates : x.target = k.id).key_data]
                      ELSE k
        InsertId(x) == NextId(rows) - 1 + (IF x.key_type = "public" THEN 1
                                            ELSE 1 + Cardinality({y \in inserts :
                                                    y.key_type = "public"}))
    IN {Updated(k) : k \in rows} \cup
       {PgpKey(InsertId(x), user_id, x.key_type, x.key_data) : x \in inserts}

\* db.session.commit() and the response
UploadCommit(w) ==
    /\ uploads[w] # Nil /\ uploads[w].status = 0
    /\ pgp_keys' = CommitWrites(pgp_keys, uploads[w].user_id, uploads[w].writes)
    /\ uploads' = [uploads EXCEPT ![w] =
                      [status |-> 200, user_id |-> uploads[w].user_id, writes |-> {}]]
    /\ UNCHANGED <<now, sessVars, chalVars, gpgVars, authVars, pruneVars, accounts,
                   issued, auth_calls, rateVars, adminVars, signVars>>

\* the keys a client presents: none, a forged one, the one it was issued
UploadKeys(username) ==
    {NoKey, ForgedKey} \cup
    (IF HasIssuedKey(username) THEN {issued[username].api_key} ELSE {})

KeysNext ==
    \/ \E u \in AccountNames, provided \in BOOLEAN : Register(u, provided, FALSE)
    \/ \E w \in RequestWorkers, u \in AccountNames, files \in SUBSET KeyTypes :
          \E k \in UploadKeys(u), p \in AccountPasswords(u) \cup {NoPassword} :
             UploadBegin(w, u, k, p, files)
    \/ \E w \in RequestWorkers : UploadCommit(w)

SpecKeys == AccountInit /\ [][KeysNext]_vars

\* the rows of pgp_keys of an owner and a key type
KeysOf(user_id, key_type) ==
    {k \in pgp_keys : k.user_id = user_id /\ k.key_type = key_type}

\* C20: at every point in time each owner has at most one PUBLIC and at most
\* one PRIVATE key record, across registration and any sequence of key uploads.
C20_OneKeyPerType ==
    \A user \in accounts, key_type \in KeyTypes :
        Cardinality(KeysOf(user.id, key_type)) <= 1

\* what register_user establishes and upload_keys keeps: exactly one of each
C20_ExactlyOnePerType ==
    \A user \in accounts, key_type \in KeyTypes :
        Cardinality(KeysOf(user.id, key_type)) = 1

\* both workers have committed an upload of the same owner's public key
C20_Witness ==
    /\ \A w \in RequestWorkers : uploads[w] # Nil /\ uploads[w].status = 200
    /\ uploads[1].user_id = uploads[2].user_id
    /\ \E k \in KeysOf(uploads[1].user_id, "public") : k.key_data.origin = "uploaded"
    /\ \E k \in KeysOf(uploads[1].user_id, "private") : k.key_data.origin = "uploaded"

\* ------------------------------------------------------------------------
\* routes/admin_routes.py (delete_user), models/user.py, models/challenge.py,
\* db/session_manager.py : deleting accounts, failed registrations
\* ------------------------------------------------------------------------
MaxUserId == 3

\* create_challenge for a registered account
CreateChallengeFor(username) ==
    /\ UserNamed(accounts, username) # Nil
    /\ CreateAndPrune(UserNamed(accounts, username).id)

\* session.delete(user) and session.commit(): the relationship User.pgp_keys
\* has cascade='all, delete-orphan'; table challenges has a foreign key to
\* users.id without ON DELETE and User has no relationship to Challenge
CascadeToChallenges(rows, user_id) == {c \in rows : c.user_id = user_id}

\* DELETE /admin/users/<username>, behind require_admin. foreign_keys: whether
\* the database enforces foreign keys (SQLite does not unless told to)
DeleteUser(username, foreign_keys) ==
    LET user == UserNamed(accounts, username)
    IN /\ IF user = Nil
          THEN /\ resp' = Response("delete_user", username, NoKey, 404, "User not found",
                                   NoUser, <<>>, "", <<>>)
               /\ UNCHANGED <<accounts, pgp_keys>>
          ELSE IF foreign_keys /\ CascadeToChallenges(challenges, user.id) # {}
          THEN /\ resp' = Response("delete_user", username, NoKey, 500, "IntegrityError",
                                   user.id, <<>>, "", <<>>)
               /\ UNCHANGED <<accounts, pgp_keys>>
          ELSE /\ resp' = Response("delete_user", username, NoKey, 200, "", user.id,
                                   <<>>, "", <<>>)
               /\ accounts' = accounts \ {user}
               /\ pgp_keys' = {k \in pgp_keys : k.user_id # user.id}
       /\ UNCHANGED <<now, sessVars, chalVars, gpgVars, failed, pruneVars, issued, uploads,
                      auth_calls, rateVars, adminVars, signVars>>

AdminNext ==
    \/ \E u \in AccountNames, provided, keygen_raises \in BOOLEAN :
          NextId(accounts) <= MaxUserId /\ Register(u, provided, keygen_raises)
    \/ \E u \in AccountNames : CreateChallengeFor(u)
    \/ \E u \in AccountNames, foreign_keys \in BOOLEAN : DeleteUser(u, foreign_keys)

SpecAdmin == AccountInit /\ [][AdminNext]_vars

\* the account whose deletion was answered last is gone
DeletionCompleted ==
    /\ resp # Nil /\ resp.route = "delete_user" /\ resp.status = 200
    /\ \A user \in accounts : user.id # resp.user_id

\* C21: after the deletion of a principal completes, no KeyMaterial record
\* and no Challenge record refers to the deleted principal.
C21_CascadeDelete ==
    DeletionCompleted =>
        /\ \A k \in pgp_keys : k.user_id # resp.user_id
        /\ \A c \in challenges : c.user_id # resp.user_id

\* C21 for the KeyMaterial records alone
C21_KeysDeleted ==
    DeletionCompleted => \A k \in pgp_keys : k.user_id # resp.user_id

SERVICE_KEYSTORE_PATH == "/srv/gpg-keystore"
SERVICE_KEY_PASSPHRASE == "service-default-passphrase"

BatchFile(home) == <<home, "batch.txt">>

\* ensure_service_keystore: the listing of the secret keys, the generation,
\* the listing again
ensure_service_keystore(home) ==
    <<Invocation("secret key listing",
                 <<"gpg", "--homedir", home, "--list-secret-keys", "--with-colons">>,
                 NoInput, InheritedEnv, "ignore"),
      Invocation("gen-key",
                 <<"gpg", "--homedir", home, "--batch", "--pinentry-mode", "loopback",
                   "--gen-key", Path(home, "batch.txt")>>, NoInput, InheritedEnv, "raise"),
      Invocation("secret key listing",
                 <<"gpg", "--homedir", home, "--list-secret-keys", "--with-colons">>,
                 NoInput, InheritedEnv, "ignore")>>

\* "rest": gpg-webservice-rest/utils/gpg_utils.py generate_gpg_keypair,
\* "legacy": utils/gpg_utils.py generate_gpg_keypair (the same commands),
\* "service": ensure_service_keystore
KeygenVariants == {"rest", "legacy", "service"}

KeygenProgram(variant, home, passphrase) ==
    IF variant = "service" THEN ensure_service_keystore(home)
    ELSE rest_generate_gpg_keypair(home, passphrase)

\* the finally clause around gpg --gen-key: os.unlink(batch_file)
UnlinkBatchFile(variant, fs, home) ==
    IF variant = "rest" THEN fs \ {BatchFile(home)} ELSE fs

\* shutil.rmtree(gnupg_home) takes the files of the directory with it
RemoveTree(fs, home) == {f \in fs : f[1] # home}

\* the call is entered: the keyring directory is chosen and, in
\* generate_gpg_keypair, the batch script is written
KeygenEnter(variant, passphrase, keystore) ==
    /\ gop = Nil
    /\ next_dir < MaxOps
    /\ variant = "service" => keystore /\ passphrase = SERVICE_KEY_PASSPHRASE
    /\ variant # "service" => passphrase \in Passphrases
    /\ LET home == IF keystore THEN SERVICE_KEYSTORE_PATH ELSE TempDirName(next_dir + 1)
       IN /\ dirs' = IF keystore THEN dirs ELSE dirs \cup {home}
          /\ batch_files' = IF variant = "service" THEN batch_files
                            ELSE batch_files \cup {BatchFile(home)}
          /\ gop' = [kind |-> "keygen", variant |-> variant, home |-> home,
                     passphrase |-> passphrase, keystore |-> keystore, pc |-> 1,
                     invoked |-> <<>>, blocked |-> FALSE]
    /\ next_dir' = next_dir + 1
    /\ gdone' = Nil
    /\ UNCHANGED <<now, sessVars, chalVars, authVars, pruneVars, keyVars,
                   rateVars, adminVars, signVars>>

\* the call ends: the temporary keyring is removed, a keystore is kept
KeygenEnds(outcome, invoked, fs) ==
    /\ gdone' = [kind |-> "keygen", variant |-> gop.variant, home |-> gop.home,
                 passphrase |-> gop.passphrase, keystore |-> gop.keystore,
                 outcome |-> outcome, invoked |-> invoked]
    /\ dirs' = IF gop.keystore THEN dirs ELSE LeaveKeyring(dirs, gop.home, outcome)
    /\ batch_files' = IF gop.keystore THEN fs ELSE RemoveTree(fs, gop.home)
    /\ gop' = Nil

\* the next subprocess of the call runs. has_key: whether the first listing of
\* ensure_service_keystore shows a secret key
KeygenRun(exit, has_key) ==
    /\ gop # Nil
    /\ ~gop.blocked
    /\ LET prog == KeygenProgram(gop.variant, gop.home, gop.passphrase)
           inv == prog[gop.pc]
           invoked == Append(gop.invoked, Ran(inv, exit))
           first_listing == gop.variant = "service" /\ gop.pc = 1
           written == IF first_listing /\ ~(has_key /\ exit = "ok")
                      THEN batch_files \cup {BatchFile(gop.home)}
                      ELSE batch_files
           fs == IF inv.name = "gen-key" /\ exit # "hang"
                 THEN UnlinkBatchFile(gop.variant, written, gop.home)
                 ELSE written
       IN /\ has_key => first_listing
          /\ IF exit = "hang"
             THEN /\ gop' = [gop EXCEPT !.invoked = invoked, !.blocked = TRUE]
                  /\ batch_files' = fs
                  /\ UNCHANGED <<dirs, gdone>>
             ELSE IF exit = "fail" /\ inv.check = "raise"
             THEN KeygenEnds("raised", invoked, fs)
             ELSE IF first_listing /\ has_key /\ exit = "ok"
             THEN KeygenEnds("ok", invoked, fs)
             ELSE IF gop.pc = Len(prog)
             THEN KeygenEnds("ok", invoked, fs)
             ELSE /\ gop' = [gop EXCEPT !.invoked = invoked, !.pc = @ + 1]
                  /\ batch_files' = fs
                  /\ UNCHANGED <<dirs, gdone>>
    /\ UNCHANGED <<now, sessVars, chalVars, authVars, next_dir, pruneVars, keyVars,
                   rateVars, adminVars, signVars>>

KeygenNext ==
    \/ \E v \in KeygenVariants, p \in Passphrases \cup {SERVICE_KEY_PASSPHRASE},
          keystore \in BOOLEAN : KeygenEnter(v, p, keystore)
    \/ \E exit \in Exits, has_key \in BOOLEAN : KeygenRun(exit, has_key)

SpecKeygen == GpgInit /\ [][KeygenNext]_vars

\* C22: after any key-pair generation has ended, successfully or with an
\* engine error, its batch script no longer exists on disk.
C22_BatchScriptRemoved ==
    gdone # Nil => BatchFile(gdone.home) \notin batch_files

\* C22 for generate_gpg_keypair of gpg-webservice-rest/utils/gpg_utils.py alone
C22_RestGenerate ==
    (gdone # Nil /\ gdone.variant = "rest") => BatchFile(gdone.home) \notin batch_files

\* ---------------------------------------------------------------------------
\* Rate limiting (utils/security_utils.py): one RateLimiter of a service that is
\* not in TESTING mode, shared by the threads that handle its requests
\* ---------------------------------------------------------------------------

\* Config.RATE_LIMIT_AUTH_WINDOW and Config.RATE_LIMIT_API_WINDOW, in seconds
window_seconds == 60

\* Config.RATE_LIMIT_AUTH_REQUESTS / RATE_LIMIT_API_REQUESTS are read from the
\* environment (any integer >= 1): the limits the model runs with
MaxLimit == 2
MaxRateNow == 80

\* the clock advances by a third or by two thirds of a window
RateClockSteps == {window_seconds \div 3, (2 * window_seconds) \div 3}

\* the while loop of is_allowed: drop the timestamps at the head of the deque
\* that are older than the window
RECURSIVE clean_old(_, _)
clean_old(deque, window_start) ==
    IF deque # <<>> /\ Head(deque) < window_start
    THEN clean_old(Tail(deque), window_start)
    ELSE deque

\* the instants of a history that lie less than a window before instant t
InWindow(history, t) == SelectSeq(history, LAMBDA e : e.t > t - window_seconds)

\* the response of the decorators rate_limit_auth / rate_limit_api when
\* is_allowed returns False; 200 stands for the response of the decorated route
RateLimited(identifier, t, ok, alone, before) ==
    [identifier |-> identifier, t |-> t, ok |-> ok, alone |-> alone, before |-> before,
     status |-> IF ok THEN 200 ELSE 429,
     error |-> IF ok THEN None ELSE "Rate limit exceeded. Please try again later."]

\* is_allowed up to the test of the deque's length: the clock is read, the old
\* timestamps are dropped and len(self.requests[identifier]) < self.max_requests
\* is evaluated
LimiterBegin(w, identifier) ==
    /\ limiter_calls[w] = Nil
    /\ LET cleaned == clean_old(requests[identifier], now - window_seconds)
           busy == {v \in RequestWorkers : limiter_calls[v] # Nil}
       IN /\ requests' = [requests EXCEPT ![identifier] = cleaned]
          /\ limiter_calls' =
                [v \in RequestWorkers |->
                    IF v = w
                    THEN [identifier |-> identifier, now |-> now,
                          below |-> Len(cleaned) < max_requests, alone |-> busy = {}]
                    ELSE IF v \in busy THEN [limiter_calls[v] EXCEPT !.alone = FALSE]
                    ELSE Nil]
    /\ UNCHANGED <<now, sessVars, chalVars, gpgVars, authVars, pruneVars, keyVars,
                   max_requests, allowed, limited, adminVars, signVars>>

\* the rest of is_allowed and of the decorator: the timestamp is appended and the
\* route runs, or the request is answered 429
LimiterFinish(w) ==
    /\ limiter_calls[w] # Nil
    /\ LET c == limiter_calls[w]
           before == Len(InWindow(allowed[c.identifier], now))
       IN /\ requests' = IF c.below
                         THEN [requests EXCEPT ![c.identifier] = Append(@, c.now)]
                         ELSE requests
          /\ allowed' = IF c.below
                        THEN [allowed EXCEPT ![c.identifier] =
                                 Append(@, [t |-> now, alone |-> c.alone])]
                        ELSE allowed
          /\ limited' = RateLimited(c.identifier, now, c.below, c.alone, before)
    /\ limiter_calls' = [limiter_calls EXCEPT ![w] = Nil]
    /\ UNCHANGED <<now, sessVars, chalVars, gpgVars, authVars, pruneVars, keyVars,
                   max_requests, adminVars, signVars>>

\* time passes between the calls (is_allowed does no input or output: a call
\* takes far less than the second the clock is modelled in); the history keeps
\* the allowed requests of the last window
RateTick ==
    /\ \A w \in RequestWorkers : limiter_calls[w] = Nil
    /\ \E d \in RateClockSteps :
          /\ now + d <= MaxRateNow
          /\ now' = now + d
          /\ allowed' = [i \in Identifiers |-> InWindow(allowed[i], now + d)]
    /\ UNCHANGED <<sessVars, chalVars, gpgVars, authVars, pruneVars, keyVars,
                   max_requests, requests, limiter_calls, limited, adminVars, signVars>>

RateInit ==
    /\ now = 0
    /\ SessionIdle
    /\ ChallengeIdle
    /\ GpgIdle
    /\ AuthIdle
    /\ PruneIdle
    /\ KeyIdle
    /\ AdminIdle
    /\ SignIdle
    /\ max_requests \in 1..MaxLimit
    /\ requests = [i \in Identifiers |-> <<>>]
    /\ limiter_calls = [w \in RequestWorkers |-> Nil]
    /\ allowed = [i \in Identifiers |-> <<>>]
    /\ limited = Nil

RateNext ==
    \/ \E w \in RequestWorkers, i \in Identifiers : LimiterBegin(w, i)
    \/ \E w \in RequestWorkers : LimiterFinish(w)
    \/ RateTick

SpecRate == RateInit /\ [][RateNext]_vars

\* C23: for any client identifier at most max_requests requests are allowed
\* within any span of window_seconds
C23_AtMostMaxRequestsPerWindow ==
    \A i \in Identifiers : Len(allowed[i]) <= max_requests

\* C23, requests handled one after the other: the requests of an identifier
\* that were allowed without another is_allowed call in progress stay within
\* the limit
C23_SequentialWithinLimit ==
    \A i \in Identifiers :
        (\A k \in 1..Len(allowed[i]) : allowed[i][k].alone)
            => Len(allowed[i]) <= max_requests

\* C23, second half, requests handled one after the other: once max_requests
\* requests of the identifier have been allowed inside the window, a further
\* request is answered 429
C23_RejectedWith429 ==
    (limited # Nil /\ limited.alone /\ limited.before >= max_requests)
        => limited.status = 429

\* C29: is_allowed calls of one identifier that run concurrently never allow
\* more than max_requests requests in one window
C29_ConcurrentCallsWithinLimit ==
    (limited # Nil /\ limited.ok /\ ~limited.alone) => limited.before < max_requests

\* ---------------------------------------------------------------------------
\* Administrator authentication (routes/admin_auth_routes.py): challenges kept
\* in the module-level dictionary _active_challenges, tokens admin_<username>_
\* <timestamp>_<hmac>
\* ---------------------------------------------------------------------------

CHALLENGE_VALIDITY_SECONDS == 300
ADMIN_TOKEN_VALIDITY_SECONDS == 86400

MaxAdminChallenges == 2
MaxAdminNow == 87100

\* os.environ.get('SECRET_KEY', ...)
SECRET_KEY == "default-secret-key-change-me"

\* the names a client sends: the administrators and a user who is none
AdminRequestNames == AdminUsernames \cup {"mallory"}

\* str.split('_') of a username: the pieces between its underscores
SplitUnderscore(username) ==
    IF username = "site_admin" THEN <<"site", "admin">> ELSE <<username>>

\* hmac.new(secret, f"{username}:{timestamp}", sha256).hexdigest()[:32]
token_hmac(secret, username, timestamp) == <<"hmac", secret, username, timestamp>>

\* generate_admin_token: the fields of f"admin_{username}_{timestamp}_{signature}"
generate_admin_token(username, t) ==
    <<"admin", username, t, token_hmac(SECRET_KEY, username, t)>>

\* a token whose HMAC was made with another secret
ForgedToken(username, t) == <<"admin", username, t, token_hmac("guessed", username, t)>>

\* token.split('_'): the prefix, the pieces of the username, the timestamp (digits)
\* and the hexadecimal signature
split_token(token) ==
    <<token[1]>> \o SplitUnderscore(token[2]) \o <<token[3], token[4]>>

\* verify_admin_token: the username, or None
verify_admin_token(token, t) ==
    LET parts == split_token(token)
    IN IF Len(parts) # 4 \/ parts[1] # "admin" THEN None
       ELSE LET username == parts[2]
                token_time == parts[3]
                signature == parts[4]
            IN IF t - token_time > ADMIN_TOKEN_VALIDITY_SECONDS THEN None
               ELSE IF ~compare_digest(signature,
                                       token_hmac(SECRET_KEY, username, token_time))
               THEN None
               ELSE IF username \notin AdminUsernames THEN None
               ELSE username

\* the detached signature the holder of an administrator's private key makes
\* over a challenge, and what verify_gpg_signature answers for a signature
AdminSignature(username, challenge) == <<"signature", username, challenge>>
verify_gpg_signature(challenge, signature, username) ==
    signature = AdminSignature(username, challenge)

AdminAnswer(username, challenge, status, error, token, t) ==
    [username |-> username, challenge |-> challenge, status |-> status,
     error |-> error, token |-> token, t |-> t]

\* POST /admin/auth/challenge
AdminGetChallenge(username) ==
    /\ next_id <= MaxAdminChallenges
    /\ IF username \notin AdminUsernames
       THEN UNCHANGED <<active_challenges, next_id>>
       ELSE LET challenge == <<token_urlsafe(next_id), now>>
            IN /\ active_challenges' =
                     [active_challenges EXCEPT ![username] =
                         [challenge |-> challenge,
                          expires_at |-> now + CHALLENGE_VALIDITY_SECONDS]]
               /\ next_id' = next_id + 1
    /\ UNCHANGED <<now, sessVars, challenges, public_key, workers, last, verified,
                   gpgVars, authVars, pruneVars, keyVars, rateVars, verifies, tokens,
                   token_check, signVars>>

\* the challenges a client can present: those handed out so far
ChallengesHandedOut ==
    {active_challenges[u].challenge : u \in {v \in AdminUsernames :
                                                 active_challenges[v] # Nil}}
        \cup {k.challenge : k \in tokens}

\* verify_challenge up to the call of verify_gpg_signature: the tests of the
\* stored challenge
AdminVerifyBegin(w, username, challenge, valid_signature) ==
    /\ verifies[w] = Nil
    /\ LET stored == IF username \in AdminUsernames THEN active_challenges[username]
                     ELSE Nil
           refuse(status, error) ==
               /\ verifies' = [verifies EXCEPT ![w] =
                      AdminAnswer(username, challenge, status, error, None, now)]
       IN IF stored = Nil
          THEN /\ refuse(400, "No active challenge for user")
               /\ UNCHANGED active_challenges
          ELSE IF now > stored.expires_at
          THEN /\ refuse(400, "Challenge expired")
               /\ active_challenges' = [active_challenges EXCEPT ![username] = Nil]
          ELSE IF challenge # stored.challenge
          THEN /\ refuse(400, "Challenge mismatch")
               /\ UNCHANGED active_challenges
          ELSE /\ verifies' = [verifies EXCEPT ![w] =
                      [username |-> username, challenge |-> challenge, status |-> 0,
                       signature |-> IF valid_signature
                                     THEN AdminSignature(username, challenge)
                                     ELSE <<"signature", "mallory", challenge>>]]
               /\ UNCHANGED active_challenges
    /\ UNCHANGED <<now, sessVars, chalVars, gpgVars, authVars, pruneVars, keyVars,
                   rateVars, tokens, token_check, signVars>>

\* the rest of verify_challenge: the signature is verified, the used challenge
\* is deleted (a KeyError when it is no longer stored) and the token is issued
AdminVerifyFinish(w) ==
    /\ verifies[w] # Nil /\ verifies[w].status = 0
    /\ LET c == verifies[w]
           answer(status, error, token) ==
               verifies' = [verifies EXCEPT ![w] =
                   AdminAnswer(c.username, c.challenge, status, error, token, now)]
       IN IF ~verify_gpg_signature(c.challenge, c.signature, c.username)
          THEN /\ answer(403, "Invalid signature", None)
               /\ UNCHANGED <<active_challenges, tokens>>
          ELSE IF active_challenges[c.username] = Nil
          THEN /\ answer(500, "KeyError", None)
               /\ UNCHANGED <<active_challenges, tokens>>
          ELSE LET token == generate_admin_token(c.username, now)
                   n == Cardinality({k \in tokens : k.challenge = c.challenge})
               IN /\ active_challenges' = [active_challenges EXCEPT ![c.username] = Nil]
                  /\ tokens' = tokens \cup {[challenge |-> c.challenge, n |-> n + 1,
                                             username |-> c.username, token |-> token,
                                             t |-> now]}
                  /\ answer(200, None, token)
    /\ UNCHANGED <<now, sessVars, chalVars, gpgVars, authVars, pruneVars, keyVars,
                   rateVars, token_check, signVars>>

\* the response is sent and the worker takes the next request
AdminVerifyReturn(w) ==
    /\ verifies[w] # Nil /\ verifies[w].status # 0
    /\ verifies' = [verifies EXCEPT ![w] = Nil]
    /\ UNCHANGED <<now, sessVars, chalVars, gpgVars, authVars, pruneVars, keyVars,
                   rateVars, active_challenges, tokens, token_check, signVars>>

\* require_admin with an X-Admin-Token header: verify_admin_token on a token the
\* service issued or on a forged one
AdminCheckToken(token, issued_to, issued_at) ==
    /\ token_check' = [token |-> token, issued_to |-> issued_to, issued_at |-> issued_at,
                       t |-> now, username |-> verify_admin_token(token, now)]
    /\ UNCHANGED <<now, sessVars, chalVars, gpgVars, authVars, pruneVars, keyVars,
                   rateVars, active_challenges, verifies, tokens, signVars>>

\* time passes: until a challenge that is still valid has expired, or by the
\* validity of a token
AdminTick ==
    /\ \E d \in {CHALLENGE_VALIDITY_SECONDS + 1, ADMIN_TOKEN_VALIDITY_SECONDS -
                                                 (CHALLENGE_VALIDITY_SECONDS + 1)} :
          /\ now + d <= MaxAdminNow
          /\ d = CHALLENGE_VALIDITY_SECONDS + 1 =>
                \E u \in AdminUsernames :
                    IF active_challenges[u] = Nil THEN FALSE
                    ELSE now <= active_challenges[u].expires_at
          /\ now' = now + d
    /\ UNCHANGED <<sessVars, chalVars, gpgVars, authVars, pruneVars, keyVars,
                   rateVars, adminVars, signVars>>

AdminAuthInit ==
    /\ now = 0
    /\ SessionIdle
    /\ ChallengeIdle
    /\ GpgIdle
    /\ AuthIdle
    /\ PruneIdle
    /\ KeyIdle
    /\ RateIdle
    /\ SignIdle
    /\ active_challenges = [u \in AdminUsernames |-> Nil]
    /\ verifies = [w \in RequestWorkers |-> Nil]
    /\ tokens = {}
    /\ token_check = Nil

AdminAuthNext ==
    \/ \E u \in AdminRequestNames : AdminGetChallenge(u)
    \/ \E w \in RequestWorkers, u \in AdminRequestNames, c \in ChallengesHandedOut,
          valid \in BOOLEAN : AdminVerifyBegin(w, u, c, valid)
    \/ \E w \in RequestWorkers : AdminVerifyFinish(w)
    \/ \E w \in RequestWorkers : AdminVerifyReturn(w)
    \/ \E k \in tokens : AdminCheckToken(k.token, k.username, k.t)
    \/ \E k \in tokens : AdminCheckToken(ForgedToken(k.username, k.t), None, k.t)
    \/ AdminTick

SpecAdminAuth == AdminAuthInit /\ [][AdminAuthNext]_vars

\* C27: a token generate_admin_token made for an administrator is accepted by
\* verify_admin_token, which returns that administrator's name, at any time up
\* to 86400 seconds after it was issued
C27_IssuedTokenAccepted ==
    (/\ token_check # Nil
     /\ token_check.issued_to \in AdminUsernames
     /\ token_check.t - token_check.issued_at <= ADMIN_TOKEN_VALIDITY_SECONDS)
    => token_check.username = token_check.issued_to

\* C27 for the administrators whose name contains no underscore
C27_AcceptedWithoutUnderscore ==
    (/\ token_check # Nil
     /\ token_check.issued_to \in AdminUsernames
     /\ Len(SplitUnderscore(token_check.issued_to)) = 1
     /\ token_check.t - token_check.issued_at <= ADMIN_TOKEN_VALIDITY_SECONDS)
    => token_check.username = token_check.issued_to

\* a forged token, and a token older than its validity, are refused
C27_OthersRefused ==
    (/\ token_check # Nil
     /\ \/ token_check.issued_to = None
        \/ token_check.t - token_check.issued_at > ADMIN_TOKEN_VALIDITY_SECONDS)
    => token_check.username = None

\* C28: every admin challenge yields at most one admin token
C28_OneTokenPerChallenge ==
    \A c \in ChallengesHandedOut : Cardinality({k \in tokens : k.challenge = c}) <= 1

\* ---------------------------------------------------------------------------
\* Signing with the stored private key (routes/gpg_routes.py sign and verify,
\* utils/gpg_file_utils.py sign_file)
\* ---------------------------------------------------------------------------

\* the accounts exist from t = 0; a sign request is followed until MaxSignNow
MaxSignNow == 3700

\* what identifies a key pair: the two halves of one pair have it in common
KeyPairOf(key_data) == <<key_data.origin, key_data.n>>

\* sign_file: gpg --import of the stored key_data, then gpg --detach-sign with
\* the passphrase on stdin; the signature, or the step that failed
sign_file(private_key, passphrase) ==
    IF private_key.encrypted THEN [error |-> "import", signature |-> None]
    ELSE IF private_key.passphrase # Unprotected /\ private_key.passphrase # passphrase
    THEN [error |-> "signing", signature |-> None]
    ELSE [error |-> None, signature |-> <<"signature", KeyPairOf(private_key)>>]

\* verify_signature_file against the public key the client sends
verify_signature_file(signature, pubkey_data) ==
    signature = <<"signature", KeyPairOf(pubkey_data)>>

SignResponse(op, username, raw_api_key, status, error, private_key, signature, t) ==
    [op |-> op, username |-> username, api_key |-> raw_api_key, status |-> status,
     error |-> error, private_key |-> private_key, signature |-> signature,
     verified |-> FALSE]

\* require_api_key and sign
sign(table, rows, username, raw_api_key, t) ==
    IF raw_api_key = NoKey
    THEN SignResponse("sign", username, raw_api_key, 401, "API key required", Nil, None, t)
    ELSE LET user == authenticate_registered(table, username, raw_api_key, t)
         IN IF user = Nil
            THEN SignResponse("sign", username, raw_api_key, 403, "authentication", Nil,
                              None, t)
            ELSE LET privkey == FirstKey(rows, user.id, "private")
                 IN IF privkey = Nil
                    THEN SignResponse("sign", username, raw_api_key, 404,
                                      "Private key not found", Nil, None, t)
                    ELSE LET gpg_passphrase == derive_gpg_passphrase(raw_api_key, user.id)
                             out == sign_file(privkey.key_data, gpg_passphrase)
                         IN IF out.error # None
                            THEN SignResponse("sign", username, raw_api_key, 500,
                                              out.error, privkey.key_data, None, t)
                            ELSE SignResponse("sign", username, raw_api_key, 200, None,
                                              privkey.key_data, out.signature, t)

\* the session keys a client can present for an account: none, a forged one,
\* the key of its registration response, the key of its last login
SignKeys(username) ==
    {NoKey, ForgedKey}
        \cup (IF HasIssuedKey(username) THEN {issued[username].api_key} ELSE {})
        \cup (IF held = Nil THEN {}
              ELSE IF held.username = username THEN {held.api_key} ELSE {})

\* POST /sign
Sign(username, raw_api_key) ==
    /\ signed' = sign(accounts, pgp_keys, username, raw_api_key, now)
    /\ UNCHANGED <<now, sessVars, chalVars, gpgVars, authVars, pruneVars, keyVars,
                   rateVars, adminVars>>

\* POST /verify of the signature just returned, with the public key stored for
\* the account and the same session key
VerifySigned ==
    /\ signed # Nil /\ signed.op = "sign" /\ signed.status = 200
    /\ LET user == authenticate_registered(accounts, signed.username, signed.api_key,
                                           now)
       IN /\ user # Nil
          /\ LET pubkey == FirstKey(pgp_keys, user.id, "public")
             IN /\ pubkey # Nil
                /\ signed' = [signed EXCEPT
                                 !.op = "verify",
                                 !.verified = verify_signature_file(signed.signature,
                                                                    pubkey.key_data)]
    /\ UNCHANGED <<now, sessVars, chalVars, gpgVars, authVars, pruneVars, keyVars,
                   rateVars, adminVars>>

\* time passes between the requests: into the next session window
SignTick ==
    /\ now + SESSION_WINDOW_SECONDS + 1 <= MaxSignNow
    /\ now' = now + SESSION_WINDOW_SECONDS + 1
    /\ UNCHANGED <<sessVars, chalVars, gpgVars, authVars, pruneVars, keyVars,
                   rateVars, adminVars, signVars>>

SignNext ==
    \/ SignTick
    \/ \E u \in AccountNames, provided \in BOOLEAN : Register(u, provided, FALSE)
    \/ \E u \in AccountNames : AccountLogin(u, PasswordOf(u))
    \/ \E u \in AccountNames, files \in (SUBSET KeyTypes) \ {{}} :
          \E k \in SignKeys(u) \ {NoKey, ForgedKey} :
             UploadBegin(1, u, k, PasswordOf(u), files)
    \/ UploadCommit(1)
    \/ \E u \in AccountNames : \E k \in SignKeys(u) : Sign(u, k)
    \/ VerifySigned

SpecSign == AccountInit /\ [][SignNext]_vars

\* the request was authenticated and found a private key
SignedWith(origin) ==
    /\ signed # Nil
    /\ signed.private_key # Nil
    /\ signed.private_key.origin = origin

\* both keys of the account are the ones register_user generated
ServiceGeneratedKeys(username) ==
    \A k \in pgp_keys : k.user_id = UserNamed(accounts, username).id
                            => k.key_data.origin = "generated"

\* C24: for an account with service-generated keys and any session key that
\* authenticates, sign succeeds and verify of the signature answers true
C24_SignThenVerify ==
    (SignedWith("generated") /\ ServiceGeneratedKeys(signed.username))
        => /\ signed.status = 200
           /\ signed.op = "verify" => signed.verified

\* C24 for the key of the registration response: the passphrase derived from it
\* is the one the private key was generated with
C24_RegistrationKeySigns ==
    (/\ SignedWith("generated")
     /\ ServiceGeneratedKeys(signed.username)
     /\ signed.api_key = issued[signed.username].api_key)
        => /\ signed.status = 200
           /\ signed.op = "verify" => signed.verified

\* C26: after the upload of a private key, a sign request with the same
\* session key can use it
C26_UploadedKeySigns ==
    (/\ SignedWith("uploaded")
     /\ signed.private_key.passphrase =
           derive_gpg_passphrase(signed.api_key,
                                 UserNamed(accounts, signed.username).id))
        => signed.status = 200

\* an uploaded private key never signs: every sign request that finds one
\* fails at the import
C26_UploadedKeyNeverImports ==
    SignedWith("uploaded") => signed.status = 500 /\ signed.error = "import"

====
